---- MODULE Spec2Model ----
(***************************************************************************)
(* Model of the authenticated session core of bunq-go: NewClient's         *)
(* bootstrap (session.go), the session guard ensureSessionActive            *)
(* (session.go), the request executor Client.request (unnamed/part_001) and  *)
(* the error classifier and signature helpers (unnamed/part_005).         *)
(*                                                                         *)
(* Thread 0 is the goroutine that runs NewClient; threads 1..NumCallers    *)
(* are goroutines that issue session-scoped calls on the client NewClient  *)
(* returned.  Time is in seconds.                                          *)
(*                                                                         *)
(* BootSpec is NewClient's run; Spec and SessionSpec are goroutines on the *)
(* returned client, against a server that answers a refresh well or fails  *)
(* (Spec) or with partial and odd bodies (SessionSpec); RequestSpec is     *)
(* request against the scripted test server of bunq_test.go.               *)
(***************************************************************************)
EXTENDS Integers, Sequences, FiniteSets, TLC

(* ------------------------------ bounds -------------------------------- *)
\* concurrent goroutines using one client
NumCallers == 2
\* session-scoped calls the goroutines issue in one run, all together
MaxCalls == 2
\* clock advances in one run
MaxTicks == 1
\* page requests of one list iteration
MaxPages == 3
\* the latest yield call at which a consumer stops
MaxStop == 2

(* ------------------------- program constants -------------------------- *)
\* session.go:247  time.Until(c.sessionExpiry) > 30*time.Second
RefreshMargin == 30
\* session.go:203  sessionTimeout = 1800
DefaultSessionTimeout == 1800
\* part_001:132    resp.StatusCode != http.StatusOK
StatusOK == 200
\* part_005:64     case http.StatusTooManyRequests
StatusTooManyRequests == 429
\* bunq_test.go:373  expected 6 calls (1 + 5 retries)
ExpectedRetries == 5
\* bunq.go:121     const defaultListCount = 200
defaultListCount == 200

(* ------------------------------ domains ------------------------------- *)
Boot == 0
Callers == 1..NumCallers
Threads == {Boot} \cup Callers

\* seconds the clock may advance by in one step
TickSteps == {10}

\* statuses the server may answer with
Statuses == {200, 201, 400, 401, 403, 404, 405, 429, 500, 503}
\* the statuses a live server answers a client's calls with in Spec
LiveStatuses == {200, 401}

\* RSA key pairs, named by their owner; "nil" is the nil pointer
NilKey == "nil"
ClientKey == "ck"
ServerKey == "sk"
OtherKey == "mk"

\* session_timeout values a session-server response may carry (0: absent)
SessionTimeouts == {-10, 0, 20, 40}
SessionTokens == {"", "s1", "s2"}
UserIDs == {0, 7, 8}

NoErr == [kind |-> "nil", status |-> 0]
NilBody == [kind |-> "nil"]
NoSig == [signer |-> "none"]
NoReq == [endpoint |-> "none"]
NoAnswer ==
    [transport |-> FALSE, status |-> 0, rid |-> "", body |-> NilBody, sig |-> NoSig]

(* ------------------------------- state -------------------------------- *)
VARIABLES
    c,          \* the Client struct's fields (part_001:22-43)
    mu,         \* c.mu, the sync.RWMutex: its writer and its readers
    now,        \* the wall clock, time.Now()
    ticks,      \* how often the clock advanced
    pc,         \* each goroutine's position
    req,        \* each goroutine's HTTP request in flight
    res,        \* each goroutine's result of request(): [err, body]
    started,    \* session-scoped calls issued so far
    newClient,  \* what NewClient returned: "pending", "client" or "error"
    bootLog,    \* the endpoints NewClient's goroutine sent a request to
    bootStep,   \* the bootstrap steps that completed without error
    hist,       \* per goroutine, facts about its current call (history);
                \* for NewClient's goroutine also its last HTTP exchange
    wave,       \* the current group of overlapping ensureSessionActive calls
    installed,  \* the token of the last session opening that returned nil
                \* (history)
    script,     \* request harness: the statuses the test server answers with
    hints,      \* request harness: whether its 429 answers carry Retry-After
    tpc,        \* request harness: position of the goroutine calling request
    calls,      \* request harness: HTTP calls the server received
    slept,      \* request harness: the delays waited between attempts
    tres,       \* request harness: what request() returned
    impl,       \* list iteration: which listIter runs (the file it is in)
    opts,       \* list iteration: the caller's *ListOptions
    params,     \* list iteration: the query parameters of the next request
    prevOlderID,\* list iteration: bunq.go's prevOlderID
    lpc,        \* list iteration: position of the iterator
    sent,       \* list iteration: the parameters of the requests sent
    served,     \* list iteration: the pages the server answered with
    yielded,    \* list iteration: what was passed to yield, in order
    stopAt,     \* list iteration: the yield call that returns false (0: none)
    first,      \* list iteration: the first request of the iteration before
    fin,        \* function bench: the arguments of the function under test
    fout        \* function bench: what it returned

vars == <<c, mu, now, ticks, pc, req, res, started, newClient, bootLog,
          bootStep, hist, wave, installed, script, hints, tpc, calls, slept, tres,
          impl, opts, params, prevOlderID, lpc, sent, served, yielded, stopAt,
          first, fin, fout>>

clientVars == <<c, mu, now, ticks, pc, req, res, started, newClient, bootLog,
                bootStep, hist, wave, installed>>
harnessVars == <<script, hints, tpc, calls, slept, tres>>
listVars == <<impl, opts, params, prevOlderID, lpc, sent, served, yielded, stopAt,
              first>>
benchVars == <<fin, fout>>

(* ---------------------------- cryptography ---------------------------- *)
\* part_005 signRequest: base64(RSA-PKCS1v15(SHA256(body))) under a key
signRequest(privateKey, body) == [signer |-> privateKey, digest |-> body]

\* verifyResponse that checks the signer and not what was signed
verifyResponse_KeyOnly(serverPubKey, body, signature) ==
    signature.signer = serverPubKey

\* part_005 verifyResponse: TRUE iff rsa.VerifyPKCS1v15 returns nil
verifyResponse(serverPubKey, body, signature) ==
    /\ signature.signer = serverPubKey
    /\ signature.digest = body

\* the signatures a response with this body may carry in its header
ServerSigs(body) ==
    { NoSig,
      signRequest(ServerKey, body),
      signRequest(OtherKey, body),
      signRequest(ServerKey, [kind |-> "tampered"]) }

(* -------------------------- error classifier -------------------------- *)
\* part_005 newAPIError, the switch on statusCode
ErrorType(statusCode) ==
    CASE statusCode = 400 -> "BadRequestError"
      [] statusCode = 401 -> "UnauthorizedError"
      [] statusCode = 403 -> "ForbiddenError"
      [] statusCode = 404 -> "NotFoundError"
      [] statusCode = 405 -> "MethodNotAllowedError"
      [] statusCode = 429 -> "TooManyRequestsError"
      [] statusCode = 500 -> "InternalServerError"
      [] OTHER -> "APIError"

\* newAPIError keeping only the first description of the envelope
newAPIError_FirstOnly(statusCode, responseID, body) ==
    [kind |-> ErrorType(statusCode),
     status |-> statusCode,
     responseID |-> responseID,
     messages |-> IF body.kind = "error" /\ Len(body.messages) > 0
                  THEN <<body.messages[1]>> ELSE <<"unknown error">>]

\* part_005 newAPIError, lines 37-71: the envelope's descriptions when the
\* body parses as an error envelope with at least one entry, otherwise the
\* single message "unknown error"; then the type chosen by the status
newAPIError(statusCode, responseID, body) ==
    [kind |-> ErrorType(statusCode),
     status |-> statusCode,
     responseID |-> responseID,
     messages |-> IF body.kind = "error" /\ Len(body.messages) > 0
                  THEN body.messages ELSE <<"unknown error">>]

(* ------------------------------- server ------------------------------- *)
ErrorBodies == { [kind |-> "error", messages |-> <<"m1">>], [kind |-> "garbage"] }

\* httpClient.Do returned an error (connection failure, cancelled context)
TransportFailure ==
    [transport |-> TRUE, status |-> 0, rid |-> "", body |-> NilBody, sig |-> NoSig]

\* what may come back for one HTTP call: a transport failure, an error
\* status with an error envelope, or a success with one of okBodies
Responses(statuses, okBodies) ==
    {TransportFailure}
    \cup { [transport |-> FALSE, status |-> s, rid |-> "r1", body |-> b,
             sig |-> NoSig] :
             s \in statuses \ {StatusOK}, b \in ErrorBodies }
    \cup UNION { { [transport |-> FALSE, status |-> StatusOK, rid |-> "r1",
                       body |-> b, sig |-> g] :
                     g \in ServerSigs(b) } :
                 b \in (IF StatusOK \in statuses THEN okBodies ELSE {}) }

Garbage == [kind |-> "garbage"]

\* a ServerPublicKey item that is missing, and a text holding no PEM block
AbsentItem == [kind |-> "absent"]
BadPEM == [kind |-> "text"]

\* x509.MarshalPKCS1PublicKey: the PKCS#1 DER bytes of an RSA public key
MarshalPKCS1PublicKey(pub) == [form |-> "pkcs1", alg |-> "rsa", key |-> pub]

\* pem.EncodeToMemory(&pem.Block{Type, Bytes}): the text of one PEM block
EncodeToMemory(type, bytes) ==
    [kind |-> "pem", type |-> type, bytes |-> bytes, lead |-> FALSE, rest |-> FALSE]

\* publicKeyToPEM giving a block without the key's bytes
publicKeyToPEM_Empty(pub) ==
    EncodeToMemory("RSA PUBLIC KEY", [form |-> "junk", alg |-> "none", key |-> NilKey])

\* part_005 publicKeyToPEM, lines 90-97
publicKeyToPEM(pub) == EncodeToMemory("RSA PUBLIC KEY", MarshalPKCS1PublicKey(pub))

\* part_005 parsePublicKeyPEM, lines 117-136: the key, or NilKey when it
\* returns an error. pem.Decode finds the first block of the text whatever
\* surrounds it and whatever its type; its bytes are read as PKCS#1, then
\* as PKIX, which must hold an RSA key
parsePublicKeyPEM(pemStr) ==
    IF pemStr.kind # "pem" THEN NilKey
    ELSE LET b == pemStr.bytes
         IN  IF b.form = "pkcs1" THEN b.key
             ELSE IF b.form # "pkix" THEN NilKey
             ELSE IF b.alg # "rsa" THEN NilKey
             ELSE b.key

\* bodies of a POST installation answer: the Token item's token ("" when
\* the item is missing) and the ServerPublicKey item's PEM text
InstallationBodies ==
    { [kind |-> "installation", token |-> t, key |-> k] :
        t \in {"", "inst"}, k \in {AbsentItem, BadPEM, publicKeyToPEM(ServerKey)} }
    \cup {Garbage}

DeviceBodies == { [kind |-> "device"] }

\* the items of a session-server answer's Response array
SessionItems ==
    { [key |-> "Token", token |-> t, id |-> 0, session_timeout |-> 0] :
        t \in SessionTokens }
    \cup { [key |-> "TokenBad", token |-> "", id |-> 0, session_timeout |-> 0],
           [key |-> "Id", token |-> "", id |-> 9, session_timeout |-> 0] }
    \cup { [key |-> "UserPerson", token |-> "", id |-> i, session_timeout |-> st] :
             i \in UserIDs, st \in SessionTimeouts }

SessionBodies ==
    { [kind |-> "session", items |-> <<>>] }
    \cup { [kind |-> "session", items |-> <<a>>] : a \in SessionItems }
    \cup { [kind |-> "session", items |-> <<a, b>>] : a \in SessionItems, b \in SessionItems }
    \cup {Garbage}

Accounts == { [id |-> i, status |-> s] : i \in {-1, 0, 5, 6}, s \in {"ACTIVE", "CANCELLED"} }

AccountBodies ==
    { [kind |-> "accounts", items |-> <<>>] }
    \cup { [kind |-> "accounts", items |-> <<a>>] : a \in Accounts }
    \cup { [kind |-> "accounts", items |-> <<a, b>>] : a \in Accounts, b \in Accounts }
    \cup {Garbage}

ResourceBodies == { [kind |-> "payload"] }

\* what the server may answer each call of NewClient with
InstallationAnswers == Responses(Statuses, InstallationBodies)
DeviceAnswers == Responses(Statuses, DeviceBodies)
SessionAnswers == Responses(Statuses, SessionBodies)
AccountAnswers == Responses(Statuses, AccountBodies)

(* -------------------------- request executor -------------------------- *)
\* request choosing the installation token for session-scoped calls and
\* the session token for the handshake's calls
BuildRequest_Swapped(endpoint, useSessionToken, cl) ==
    LET token == IF useSessionToken THEN cl.installationToken ELSE cl.sessionToken
    IN  [endpoint |-> endpoint,
         session |-> useSessionToken,
         token |-> token,
         signature |-> IF cl.privateKey # NilKey /\ token # ""
                       THEN signRequest(cl.privateKey, [kind |-> endpoint])
                       ELSE NoSig,
         serverPubKey |-> cl.serverPublicKey]

\* part_001 request, lines 69-119: the credentials read from the client and
\* the headers built from them
BuildRequest(endpoint, useSessionToken, cl) ==
    LET token == IF useSessionToken THEN cl.sessionToken ELSE cl.installationToken
    IN  [endpoint |-> endpoint,
         session |-> useSessionToken,
         token |-> token,
         signature |-> IF cl.privateKey # NilKey /\ token # ""
                       THEN signRequest(cl.privateKey, [kind |-> endpoint])
                       ELSE NoSig,
         serverPubKey |-> cl.serverPublicKey]

\* request treating only the 5xx statuses as errors
RequestOutcome_Lenient(rq, resp) ==
    IF resp.transport
    THEN [err |-> [kind |-> "executing request", status |-> 0], body |-> NilBody]
    ELSE IF resp.status >= 500
    THEN [err |-> newAPIError(resp.status, resp.rid, resp.body), body |-> NilBody]
    ELSE [err |-> NoErr, body |-> resp.body]

\* request returning the body of every 200 answer, whatever its signature
RequestOutcome_NoVerify(rq, resp) ==
    IF resp.transport
    THEN [err |-> [kind |-> "executing request", status |-> 0], body |-> NilBody]
    ELSE IF resp.status # StatusOK
    THEN [err |-> newAPIError(resp.status, resp.rid, resp.body), body |-> NilBody]
    ELSE [err |-> NoErr, body |-> resp.body]

\* part_001 request, lines 121-147: what request returns for a response
RequestOutcome(rq, resp) ==
    IF resp.transport
    THEN [err |-> [kind |-> "executing request", status |-> 0], body |-> NilBody]
    ELSE IF resp.status # StatusOK
    THEN [err |-> newAPIError(resp.status, resp.rid, resp.body), body |-> NilBody]
    ELSE IF /\ rq.serverPubKey # NilKey
            /\ resp.sig # NoSig
            /\ ~verifyResponse(rq.serverPubKey, resp.body, resp.sig)
    THEN [err |-> [kind |-> "server signature verification failed", status |-> 0],
          body |-> NilBody]
    ELSE [err |-> NoErr, body |-> resp.body]

(* ------------------------------ parsers ------------------------------- *)
Err(kind) == [kind |-> kind, status |-> 0]

\* session.go doInstallation, lines 73-119: the client after the response
\* body was read, and the error returned
doInstallationParse(cl, body) ==
    IF body.kind # "installation"
    THEN [c |-> cl, err |-> Err("parsing installation response")]
    ELSE LET c1 == IF body.token # ""
                   THEN [cl EXCEPT !.installationToken = body.token] ELSE cl
             pub == parsePublicKeyPEM(body.key)
         IN  IF body.key # AbsentItem /\ pub = NilKey
             THEN [c |-> c1, err |-> Err("parsing server public key PEM")]
             ELSE LET c2 == IF body.key # AbsentItem
                            THEN [c1 EXCEPT !.serverPublicKey = pub] ELSE c1
                  IN  IF c2.installationToken = ""
                      THEN [c |-> c2, err |-> Err("no installation token in response")]
                      ELSE IF c2.serverPublicKey = NilKey
                      THEN [c |-> c2, err |-> Err("no server public key in response")]
                      ELSE [c |-> c2, err |-> NoErr]

RECURSIVE parseSessionItems(_, _, _, _)
\* session.go parseSessionResponse, the loop of lines 162-192 from item i on,
\* with the client cl and the local sessionTimeout st
parseSessionItems(items, i, cl, st) ==
    IF i > Len(items)
    THEN [c |-> cl, sessionTimeout |-> st, err |-> NoErr]
    ELSE LET it == items[i]
         IN  CASE it.key = "Token" ->
                    parseSessionItems(items, i + 1,
                                      [cl EXCEPT !.sessionToken = it.token], st)
               [] it.key = "TokenBad" ->
                    [c |-> cl, sessionTimeout |-> st,
                     err |-> Err("parsing session token")]
               [] it.key = "Id" ->
                    parseSessionItems(items, i + 1, cl, st)
               [] OTHER ->
                    IF it.id > 0
                    THEN parseSessionItems(items, i + 1,
                                           [cl EXCEPT !.userID = it.id],
                                           it.session_timeout)
                    ELSE parseSessionItems(items, i + 1, cl, st)

\* parseSessionResponse without the checks of lines 194-199
parseSessionResponse_Unchecked(cl, body, t) ==
    IF body.kind # "session"
    THEN [c |-> cl, err |-> Err("parsing session response")]
    ELSE LET r == parseSessionItems(body.items, 1, cl, 0)
         IN  IF r.err # NoErr THEN [c |-> r.c, err |-> r.err]
             ELSE LET sessionTimeout == IF r.sessionTimeout = 0
                                        THEN DefaultSessionTimeout
                                        ELSE r.sessionTimeout
                  IN  [c |-> [r.c EXCEPT !.sessionExpiry = t + sessionTimeout],
                       err |-> NoErr]

\* parseSessionResponse without the default of lines 201-203
parseSessionResponse_NoDefault(cl, body, t) ==
    IF body.kind # "session"
    THEN [c |-> cl, err |-> Err("parsing session response")]
    ELSE LET r == parseSessionItems(body.items, 1, cl, 0)
         IN  IF r.err # NoErr THEN [c |-> r.c, err |-> r.err]
             ELSE IF r.c.sessionToken = ""
             THEN [c |-> r.c, err |-> Err("no session token in response")]
             ELSE IF r.c.userID = 0
             THEN [c |-> r.c, err |-> Err("no user ID in response")]
             ELSE [c |-> [r.c EXCEPT !.sessionExpiry = t + r.sessionTimeout],
                   err |-> NoErr]

\* session.go parseSessionResponse, lines 152-207, run at time t
parseSessionResponse(cl, body, t) ==
    IF body.kind # "session"
    THEN [c |-> cl, err |-> Err("parsing session response")]
    ELSE LET r == parseSessionItems(body.items, 1, cl, 0)
         IN  IF r.err # NoErr THEN [c |-> r.c, err |-> r.err]
             ELSE IF r.c.sessionToken = ""
             THEN [c |-> r.c, err |-> Err("no session token in response")]
             ELSE IF r.c.userID = 0
             THEN [c |-> r.c, err |-> Err("no user ID in response")]
             ELSE LET sessionTimeout == IF r.sessionTimeout = 0
                                        THEN DefaultSessionTimeout
                                        ELSE r.sessionTimeout
                  IN  [c |-> [r.c EXCEPT !.sessionExpiry = t + sessionTimeout],
                       err |-> NoErr]

RECURSIVE firstActive_Last(_, _)
\* firstActive going on to the end: the last ACTIVE account with a positive id
firstActive_Last(items, i) ==
    IF i > Len(items) THEN 0
    ELSE LET rest == firstActive_Last(items, i + 1)
         IN  IF rest # 0 THEN rest
             ELSE IF items[i].status = "ACTIVE" /\ items[i].id > 0 THEN items[i].id
             ELSE 0

RECURSIVE firstActive(_, _)
\* session.go findPrimaryAccount, the loop of lines 223-238: the id of the
\* first account from item i on that is ACTIVE with a positive id, else 0
firstActive(items, i) ==
    IF i > Len(items) THEN 0
    ELSE IF items[i].status = "ACTIVE" /\ items[i].id > 0 THEN items[i].id
    ELSE firstActive(items, i + 1)

\* session.go findPrimaryAccount, lines 216-240, after c.get returned body
findPrimaryAccountParse(cl, body) ==
    IF body.kind # "accounts"
    THEN [c |-> cl, err |-> Err("parsing monetary accounts")]
    ELSE IF firstActive(body.items, 1) = 0
    THEN [c |-> cl, err |-> Err("no active monetary account found")]
    ELSE [c |-> [cl EXCEPT !.primaryMonetaryAccountID = firstActive(body.items, 1)],
          err |-> NoErr]

(* ------------------------------ initial ------------------------------- *)
\* session.go NewClient, lines 24-28: c := &Client{...}, every session
\* field at its zero value
ZeroClient ==
    [privateKey |-> NilKey, serverPublicKey |-> NilKey,
     installationToken |-> "", sessionToken |-> "", sessionExpiry |-> 0,
     userID |-> 0, primaryMonetaryAccountID |-> 0]

NoResult == [err |-> NoErr, body |-> NilBody]

NoHist ==
    [waited |-> FALSE, seen |-> "none", ticked |-> FALSE,
     sent |-> 0, rem |-> "none", ensured |-> "no",
     asked |-> NoReq, answer |-> NoAnswer, unguarded |-> FALSE]

\* NewClient's goroutine received the answer resp to its request rq (history)
Exchange(h, t, rq, resp) ==
    IF t = Boot THEN [h EXCEPT !.asked = rq, !.answer = resp] ELSE h

NoWave == [members |-> {}, sent |-> 0, completed |-> 0, bad |-> FALSE]

InitClient ==
    /\ c = ZeroClient
    /\ installed = ""
    /\ mu = [writers |-> {}, readers |-> {}]
    /\ now = 0
    /\ ticks = 0
    /\ pc = [t \in Threads |-> IF t = Boot THEN "new" ELSE "idle"]
    /\ req = [t \in Threads |-> NoReq]
    /\ res = [t \in Threads |-> NoResult]
    /\ started = 0
    /\ newClient = "pending"
    /\ bootLog = <<>>
    /\ bootStep = {}
    /\ hist = [t \in Threads |-> NoHist]
    /\ wave = NoWave

InitHarnessIdle ==
    /\ script = <<>>
    /\ hints = <<>>
    /\ tpc = "off"
    /\ calls = 0
    /\ slept = <<>>
    /\ tres = NoResult

NoOpts == [nil |-> TRUE, Count |-> 0, OlderID |-> 0, NewerID |-> 0]
NoParams == [count |-> <<>>, older_id |-> <<>>, newer_id |-> <<>>]
NoInput == [fn |-> "none"]
NoOutput == [fn |-> "none"]

\* no list iteration is running
InitListIdle ==
    /\ impl = "none"
    /\ opts = NoOpts
    /\ params = NoParams
    /\ prevOlderID = 0
    /\ lpc = "off"
    /\ sent = <<>>
    /\ served = <<>>
    /\ yielded = <<>>
    /\ stopAt = 0
    /\ first = <<>>

\* no function is under test
InitBenchIdle ==
    /\ fin = NoInput
    /\ fout = NoOutput

Init == InitClient /\ InitHarnessIdle /\ InitListIdle /\ InitBenchIdle

(* ---------------------------- session guard --------------------------- *)
\* ensureSessionActive without its expiry check: every call refreshes
NeedsRefresh_Always(cl, t) == TRUE

\* ensureSessionActive comparing with >= : no refresh at exactly the margin
NeedsRefresh_Strict(cl, t) == cl.sessionExpiry - t < RefreshMargin

\* ensureSessionActive with its comparison the wrong way round
NeedsRefresh_Inverted(cl, t) == cl.sessionExpiry - t > RefreshMargin

\* session.go ensureSessionActive, lines 247-249: the session is refreshed
\* unless time.Until(c.sessionExpiry) > 30*time.Second
NeedsRefresh(cl, t) == ~(cl.sessionExpiry - t > RefreshMargin)

\* ensureSessionActive taking no exclusive lock against other writers
CanLock_NoExclusion(m) == m.readers = {}

\* session.go:244 c.mu.Lock(): granted when no writer and no reader holds mu
CanLock(m) == m.writers = {} /\ m.readers = {}

\* request reading the session fields without waiting for the writer
CanRLock_NoWait(m) == TRUE

\* part_001:73 c.mu.RLock(): granted when no writer holds mu
CanRLock(m) == m.writers = {}

\* the session has at most the margin left at time t (history)
WithinMargin(cl, t) == cl.sessionExpiry - t <= RefreshMargin

\* how the remaining time compares with the margin (history)
RemClass(cl, t) ==
    IF cl.sessionExpiry - t < RefreshMargin THEN "below"
    ELSE IF cl.sessionExpiry - t = RefreshMargin THEN "equal" ELSE "above"

Inside(p) == { t \in Threads : p[t] \in {"lock", "refresh"} }

WaveActive(w, p) == w.members \cap Inside(p) # {}

\* the goroutines ts, blocked in ensureSessionActive on an expiring session,
\* join the group of overlapping calls, or start a new one (history)
JoinWave(w, p, ts) ==
    IF WaveActive(w, p) THEN [w EXCEPT !.members = @ \cup ts]
    ELSE [NoWave EXCEPT !.members = ts]

\* goroutine t calls request(..., useSessionToken = true): part_001:59-60
EnterHist(t) ==
    [NoHist EXCEPT !.waited = mu.writers # {}]

EnterWave(t) ==
    IF WithinMargin(c, now) THEN JoinWave(wave, pc, {t}) ELSE wave

Endpoint(t) == IF t = Boot THEN "monetary-account" ELSE "resource"

(* what the handshake calls a good answer, for the record of the steps *)
SigGood(rq, resp) ==
    \/ rq.serverPubKey = NilKey
    \/ resp.sig = NoSig
    \/ verifyResponse(rq.serverPubKey, resp.body, resp.sig)

AnswerOK(rq, resp) ==
    ~resp.transport /\ resp.status = StatusOK /\ SigGood(rq, resp)

GoodInstallation(rq, resp) ==
    /\ AnswerOK(rq, resp)
    /\ resp.body.kind = "installation"
    /\ resp.body.token # ""
    /\ resp.body.key \notin {AbsentItem, BadPEM}

GoodSession(rq, resp) ==
    /\ AnswerOK(rq, resp)
    /\ resp.body.kind = "session"
    /\ \E i \in 1..Len(resp.body.items) :
          resp.body.items[i].key = "Token" /\ resp.body.items[i].token # ""
    /\ \E i \in 1..Len(resp.body.items) :
          resp.body.items[i].key = "UserPerson" /\ resp.body.items[i].id > 0

GoodAccounts(rq, resp) ==
    /\ AnswerOK(rq, resp)
    /\ resp.body.kind = "accounts"
    /\ \E i \in 1..Len(resp.body.items) :
          resp.body.items[i].status = "ACTIVE" /\ resp.body.items[i].id > 0

(* ------------------------------ NewClient ----------------------------- *)
\* the token of the last session opening that returned nil: the one this
\* opening read from a Token item when it returned nil, else as before
\* (history)
Installed(was, r, body) ==
    IF r.err = NoErr /\ \E i \in 1..Len(body.items) : body.items[i].key = "Token"
    THEN r.c.sessionToken ELSE was

\* NewClient returns (nil, err): session.go lines 33, 39, 44, 49, 54
BootFail(cl) ==
    /\ c' = cl
    /\ newClient' = "error"
    /\ pc' = [pc EXCEPT ![Boot] = "returned"]
    /\ req' = [req EXCEPT ![Boot] = NoReq]

\* session.go NewClient lines 15-37 and doInstallation lines 63-68: the key
\* pair is generated and POST installation is sent
NewClientStart ==
    /\ pc[Boot] = "new"
    /\ \/ /\ BootFail(c)
          /\ UNCHANGED <<bootLog, bootStep>>
       \/ LET c1 == [c EXCEPT !.privateKey = ClientKey]
          IN  /\ c' = c1
              /\ req' = [req EXCEPT ![Boot] = BuildRequest("installation", FALSE, c1)]
              /\ bootLog' = Append(bootLog, "installation")
              /\ bootStep' = bootStep \cup {"keygen"}
              /\ pc' = [pc EXCEPT ![Boot] = "installation"]
              /\ UNCHANGED newClient
    /\ UNCHANGED <<mu, now, ticks, res, started, hist, wave>>
    /\ UNCHANGED harnessVars
    /\ UNCHANGED <<listVars, benchVars, installed>>

\* session.go doInstallation lines 68-119, then NewClient lines 38-43 and
\* doDeviceServer lines 122-136: POST device-server is sent
InstallationRespond ==
    /\ pc[Boot] = "installation"
    /\ \E resp \in InstallationAnswers :
         LET out == RequestOutcome(req[Boot], resp)
             r == IF out.err # NoErr THEN [c |-> c, err |-> out.err]
                  ELSE doInstallationParse(c, out.body)
         IN  /\ bootStep' = IF GoodInstallation(req[Boot], resp)
                            THEN bootStep \cup {"installation"} ELSE bootStep
             /\ hist' = [hist EXCEPT ![Boot] = Exchange(@, Boot, req[Boot], resp)]
             /\ IF r.err # NoErr
                THEN BootFail(r.c) /\ UNCHANGED bootLog
                ELSE /\ c' = r.c
                     /\ req' = [req EXCEPT ![Boot] =
                                  BuildRequest("device-server", FALSE, r.c)]
                     /\ bootLog' = Append(bootLog, "device-server")
                     /\ pc' = [pc EXCEPT ![Boot] = "device-server"]
                     /\ UNCHANGED newClient
    /\ UNCHANGED <<mu, now, ticks, res, started, wave>>
    /\ UNCHANGED harnessVars
    /\ UNCHANGED <<listVars, benchVars, installed>>

\* NewClient going on to the session-server step whatever doDeviceServer
\* returned
DeviceServerRespond_IgnoreErr ==
    /\ pc[Boot] = "device-server"
    /\ \E resp \in DeviceAnswers :
         bootStep' = IF AnswerOK(req[Boot], resp)
                     THEN bootStep \cup {"device-server"} ELSE bootStep
    /\ req' = [req EXCEPT ![Boot] = BuildRequest("session-server", FALSE, c)]
    /\ bootLog' = Append(bootLog, "session-server")
    /\ pc' = [pc EXCEPT ![Boot] = "session-server"]
    /\ UNCHANGED <<c, newClient, mu, now, ticks, res, started, hist, wave>>
    /\ UNCHANGED harnessVars
    /\ UNCHANGED <<listVars, benchVars, installed>>

\* session.go doDeviceServer lines 135-136, then NewClient lines 43-48 and
\* doSessionServer lines 139-144: POST session-server is sent
DeviceServerRespond ==
    /\ pc[Boot] = "device-server"
    /\ \E resp \in DeviceAnswers :
         LET out == RequestOutcome(req[Boot], resp)
         IN  /\ bootStep' = IF AnswerOK(req[Boot], resp)
                            THEN bootStep \cup {"device-server"} ELSE bootStep
             /\ hist' = [hist EXCEPT ![Boot] = Exchange(@, Boot, req[Boot], resp)]
             /\ IF out.err # NoErr
                THEN BootFail(c) /\ UNCHANGED bootLog
                ELSE /\ req' = [req EXCEPT ![Boot] =
                                  BuildRequest("session-server", FALSE, c)]
                     /\ bootLog' = Append(bootLog, "session-server")
                     /\ pc' = [pc EXCEPT ![Boot] = "session-server"]
                     /\ UNCHANGED <<c, newClient>>
    /\ UNCHANGED <<mu, now, ticks, res, started, wave>>
    /\ UNCHANGED harnessVars
    /\ UNCHANGED <<listVars, benchVars, installed>>

\* session.go doSessionServer lines 144-150 with parseSessionResponse, then
\* NewClient lines 48-53 and findPrimaryAccount lines 209-211: c.get is
\* called, which enters request(..., useSessionToken = true)
SessionServerRespond ==
    /\ pc[Boot] = "session-server"
    /\ \E resp \in SessionAnswers :
         LET out == RequestOutcome(req[Boot], resp)
             r == IF out.err # NoErr THEN [c |-> c, err |-> out.err]
                  ELSE parseSessionResponse(c, out.body, now)
         IN  /\ installed' = Installed(installed, r, out.body)
             /\ bootStep' = IF GoodSession(req[Boot], resp)
                            THEN bootStep \cup {"session-server"} ELSE bootStep
             /\ IF r.err # NoErr
                THEN /\ BootFail(r.c)
                     /\ hist' = [hist EXCEPT ![Boot] =
                                   Exchange(@, Boot, req[Boot], resp)]
                     /\ UNCHANGED wave
                ELSE /\ c' = r.c
                     /\ req' = [req EXCEPT ![Boot] = NoReq]
                     /\ pc' = [pc EXCEPT ![Boot] = "lock"]
                     /\ hist' = [hist EXCEPT ![Boot] =
                                   Exchange(NoHist, Boot, req[Boot], resp)]
                     /\ wave' = IF WithinMargin(r.c, now)
                                THEN JoinWave(wave, pc, {Boot}) ELSE wave
                     /\ UNCHANGED newClient
    /\ UNCHANGED <<mu, now, ticks, res, started, bootLog>>
    /\ UNCHANGED harnessVars
    /\ UNCHANGED <<listVars, benchVars>>

\* session.go findPrimaryAccount lines 212-240 and NewClient lines 53-60:
\* c.get has returned to NewClient's goroutine
FindPrimaryAccountReturn ==
    /\ pc[Boot] = "done"
    /\ LET r == IF res[Boot].err # NoErr THEN [c |-> c, err |-> res[Boot].err]
                ELSE findPrimaryAccountParse(c, res[Boot].body)
       IN  IF r.err # NoErr
           THEN BootFail(r.c)
           ELSE /\ c' = r.c
                /\ newClient' = "client"
                /\ pc' = [pc EXCEPT ![Boot] = "returned"]
                /\ req' = [req EXCEPT ![Boot] = NoReq]
    /\ res' = [res EXCEPT ![Boot] = NoResult]
    /\ UNCHANGED <<mu, now, ticks, started, bootLog, bootStep, hist, wave>>
    /\ UNCHANGED harnessVars
    /\ UNCHANGED <<listVars, benchVars, installed>>

(* ------------------------- session-scoped calls ------------------------ *)
\* a goroutine calls get/post/put/delete on the client NewClient returned,
\* its previous call (if any) having returned: part_001 request lines 58-60,
\* up to c.mu.Lock() of ensureSessionActive
Start(t) ==
    /\ t \in Callers
    /\ newClient = "client"
    /\ pc[t] \in {"idle", "done"}
    /\ started < MaxCalls
    /\ started' = started + 1
    /\ pc' = [pc EXCEPT ![t] = "lock"]
    /\ hist' = [hist EXCEPT ![t] = EnterHist(t)]
    /\ wave' = EnterWave(t)
    /\ req' = [req EXCEPT ![t] = NoReq]
    /\ res' = [res EXCEPT ![t] = NoResult]
    /\ UNCHANGED <<c, mu, now, ticks, newClient, bootLog, bootStep>>
    /\ UNCHANGED harnessVars
    /\ UNCHANGED <<listVars, benchVars, installed>>

\* ensureSessionActive whose session-server request is session-scoped: the
\* request calls ensureSessionActive again, which waits for the lock its
\* caller holds
EnsureSessionActive_Reentrant(t) ==
    /\ pc[t] = "lock"
    /\ CanLock(mu)
    /\ IF NeedsRefresh(c, now)
       THEN /\ mu' = [mu EXCEPT !.writers = @ \cup {t}]
            /\ pc' = [pc EXCEPT ![t] = "lock"]
            /\ hist' = [hist EXCEPT ![t].rem = RemClass(c, now)]
            /\ UNCHANGED <<req, wave, bootLog>>
       ELSE /\ pc' = [pc EXCEPT ![t] = "rlock"]
            /\ hist' = [hist EXCEPT ![t].rem = RemClass(c, now),
                                    ![t].ensured = "ok"]
            /\ UNCHANGED <<mu, req, wave, bootLog>>
    /\ UNCHANGED <<c, now, ticks, res, started, newClient, bootStep>>
    /\ UNCHANGED harnessVars
    /\ UNCHANGED <<listVars, benchVars, installed>>

\* session.go ensureSessionActive lines 243-251 and doSessionServer lines
\* 139-144: the lock is taken and the expiry checked; either the lock is
\* released at once, or POST session-server is sent with the lock held
EnsureSessionActive(t) ==
    /\ pc[t] = "lock"
    /\ CanLock(mu)
    /\ IF NeedsRefresh(c, now)
       THEN /\ mu' = [mu EXCEPT !.writers = @ \cup {t}]
            /\ req' = [req EXCEPT ![t] = BuildRequest("session-server", FALSE, c)]
            /\ pc' = [pc EXCEPT ![t] = "refresh"]
            /\ hist' = [hist EXCEPT ![t].sent = @ + 1, ![t].rem = RemClass(c, now)]
            /\ wave' = [wave EXCEPT !.sent = @ + 1]
            /\ bootLog' = IF t = Boot THEN Append(bootLog, "session-server")
                          ELSE bootLog
       ELSE /\ pc' = [pc EXCEPT ![t] = "rlock"]
            /\ hist' = [hist EXCEPT ![t].rem = RemClass(c, now),
                                    ![t].ensured = "ok"]
            /\ UNCHANGED <<mu, req, wave, bootLog>>
    /\ UNCHANGED <<c, now, ticks, res, started, newClient, bootStep>>
    /\ UNCHANGED harnessVars
    /\ UNCHANGED <<listVars, benchVars, installed>>

\* how a refresh that just ended looks to the goroutines blocked behind it
Outcome(err, cl, t) ==
    IF err # NoErr THEN "fail" ELSE IF WithinMargin(cl, t) THEN "short" ELSE "ok"

\* RefreshRespond with request going on to the snapshot whatever
\* ensureSessionActive returned
RefreshRespond_IgnoreErr(t, answers) ==
    /\ pc[t] = "refresh"
    /\ \E resp \in answers :
         LET out == RequestOutcome(req[t], resp)
             r == IF out.err # NoErr THEN [c |-> c, err |-> out.err]
                  ELSE parseSessionResponse(c, out.body, now)
             seen == Outcome(r.err, r.c, now)
         IN  /\ c' = r.c
             /\ installed' = Installed(installed, r, out.body)
             /\ pc' = [pc EXCEPT ![t] = "rlock"]
             /\ res' = [res EXCEPT ![t] = NoResult]
             /\ hist' = [u \in Threads |->
                           IF u = t
                           THEN [Exchange(hist[u], t, req[t], resp)
                                    EXCEPT !.ensured =
                                       IF r.err = NoErr THEN "ok" ELSE "err"]
                           ELSE IF pc[u] = "lock"
                           THEN [hist[u] EXCEPT !.seen = seen, !.ticked = FALSE]
                           ELSE hist[u]]
             /\ wave' = [wave EXCEPT
                           !.completed = IF r.err = NoErr THEN @ + 1 ELSE @,
                           !.bad = @ \/ seen # "ok"]
             /\ bootStep' = IF t = Boot /\ GoodSession(req[t], resp)
                            THEN bootStep \cup {"session-refresh"} ELSE bootStep
    /\ mu' = [mu EXCEPT !.writers = @ \ {t}]
    /\ req' = [req EXCEPT ![t] = NoReq]
    /\ UNCHANGED <<now, ticks, started, newClient, bootLog>>
    /\ UNCHANGED harnessVars
    /\ UNCHANGED <<listVars, benchVars>>

\* RefreshRespond with ensureSessionActive unlocking only on its successful
\* return path
RefreshRespond_KeepLock(t, answers) ==
    /\ pc[t] = "refresh"
    /\ \E resp \in answers :
         LET out == RequestOutcome(req[t], resp)
             r == IF out.err # NoErr THEN [c |-> c, err |-> out.err]
                  ELSE parseSessionResponse(c, out.body, now)
             seen == Outcome(r.err, r.c, now)
         IN  /\ c' = r.c
             /\ installed' = Installed(installed, r, out.body)
             /\ pc' = [pc EXCEPT ![t] = IF r.err = NoErr THEN "rlock" ELSE "done"]
             /\ res' = [res EXCEPT ![t] = IF r.err = NoErr THEN NoResult
                                          ELSE [err |-> r.err, body |-> NilBody]]
             /\ hist' = [u \in Threads |->
                           IF u = t
                           THEN [Exchange(hist[u], t, req[t], resp)
                                    EXCEPT !.ensured =
                                       IF r.err = NoErr THEN "ok" ELSE "err"]
                           ELSE IF pc[u] = "lock"
                           THEN [hist[u] EXCEPT !.seen = seen, !.ticked = FALSE]
                           ELSE hist[u]]
             /\ wave' = [wave EXCEPT
                           !.completed = IF r.err = NoErr THEN @ + 1 ELSE @,
                           !.bad = @ \/ seen # "ok"]
             /\ bootStep' = IF t = Boot /\ GoodSession(req[t], resp)
                            THEN bootStep \cup {"session-refresh"} ELSE bootStep
             /\ mu' = IF r.err = NoErr THEN [mu EXCEPT !.writers = @ \ {t}] ELSE mu
    /\ req' = [req EXCEPT ![t] = NoReq]
    /\ UNCHANGED <<now, ticks, started, newClient, bootLog>>
    /\ UNCHANGED harnessVars
    /\ UNCHANGED <<listVars, benchVars>>

\* session.go doSessionServer lines 144-149 with parseSessionResponse, and
\* ensureSessionActive's deferred c.mu.Unlock(); then part_001 lines 60-62
RefreshRespond(t, answers) ==
    /\ pc[t] = "refresh"
    /\ \E resp \in answers :
         LET out == RequestOutcome(req[t], resp)
             r == IF out.err # NoErr THEN [c |-> c, err |-> out.err]
                  ELSE parseSessionResponse(c, out.body, now)
             seen == Outcome(r.err, r.c, now)
         IN  /\ c' = r.c
             /\ installed' = Installed(installed, r, out.body)
             /\ pc' = [pc EXCEPT ![t] = IF r.err = NoErr THEN "rlock" ELSE "done"]
             /\ res' = [res EXCEPT ![t] = IF r.err = NoErr THEN NoResult
                                          ELSE [err |-> r.err, body |-> NilBody]]
             /\ hist' = [u \in Threads |->
                           IF u = t
                           THEN [Exchange(hist[u], t, req[t], resp)
                                    EXCEPT !.ensured =
                                       IF r.err = NoErr THEN "ok" ELSE "err"]
                           ELSE IF pc[u] = "lock"
                           THEN [hist[u] EXCEPT !.seen = seen, !.ticked = FALSE]
                           ELSE hist[u]]
             /\ wave' = [wave EXCEPT
                           !.completed = IF r.err = NoErr THEN @ + 1 ELSE @,
                           !.bad = @ \/ seen # "ok"]
             /\ bootStep' = IF t = Boot /\ GoodSession(req[t], resp)
                            THEN bootStep \cup {"session-refresh"} ELSE bootStep
    /\ mu' = [mu EXCEPT !.writers = @ \ {t}]
    /\ req' = [req EXCEPT ![t] = NoReq]
    /\ UNCHANGED <<now, ticks, started, newClient, bootLog>>
    /\ UNCHANGED harnessVars
    /\ UNCHANGED <<listVars, benchVars>>

\* part_001 request lines 72-76: the read lock is taken and the session
\* token, the private key and the server's public key are read
Snapshot(t) ==
    /\ pc[t] = "rlock"
    /\ CanRLock(mu)
    /\ mu' = [mu EXCEPT !.readers = @ \cup {t}]
    /\ req' = [req EXCEPT ![t] = BuildRequest(Endpoint(t), TRUE, c)]
    /\ pc' = [pc EXCEPT ![t] = "runlock"]
    /\ hist' = [hist EXCEPT ![t] = NoHist]
    /\ UNCHANGED <<c, now, ticks, res, started, newClient, bootLog, bootStep, wave>>
    /\ UNCHANGED harnessVars
    /\ UNCHANGED <<listVars, benchVars, installed>>

\* part_001 request lines 77-121: the read lock is released, the request is
\* built, signed and sent
Send(t) ==
    /\ pc[t] = "runlock"
    /\ mu' = [mu EXCEPT !.readers = @ \ {t}]
    /\ pc' = [pc EXCEPT ![t] = "wait"]
    /\ bootLog' = IF t = Boot THEN Append(bootLog, Endpoint(t)) ELSE bootLog
    /\ UNCHANGED <<c, now, ticks, req, res, started, newClient, bootStep,
                   hist, wave>>
    /\ UNCHANGED harnessVars
    /\ UNCHANGED <<listVars, benchVars, installed>>

\* request dropping the client's session token when the server answers 401
Respond_DropSession(t, answers) ==
    /\ pc[t] = "wait"
    /\ \E resp \in answers :
         /\ res' = [res EXCEPT ![t] = RequestOutcome(req[t], resp)]
         /\ bootStep' = IF t = Boot /\ GoodAccounts(req[t], resp)
                        THEN bootStep \cup {"monetary-account"} ELSE bootStep
         /\ hist' = [hist EXCEPT ![t] = Exchange(@, t, req[t], resp)]
         /\ c' = IF ~resp.transport /\ resp.status = 401
                 THEN [c EXCEPT !.sessionToken = ""] ELSE c
    /\ pc' = [pc EXCEPT ![t] = "done"]
    /\ req' = [req EXCEPT ![t] = NoReq]
    /\ UNCHANGED <<mu, now, ticks, started, newClient, bootLog, wave>>
    /\ UNCHANGED harnessVars
    /\ UNCHANGED <<listVars, benchVars, installed>>

\* part_001 request lines 121-147: the response arrives and request returns
Respond(t, answers) ==
    /\ pc[t] = "wait"
    /\ \E resp \in answers :
         /\ res' = [res EXCEPT ![t] = RequestOutcome(req[t], resp)]
         /\ bootStep' = IF t = Boot /\ GoodAccounts(req[t], resp)
                        THEN bootStep \cup {"monetary-account"} ELSE bootStep
         /\ hist' = [hist EXCEPT ![t] = Exchange(@, t, req[t], resp)]
    /\ pc' = [pc EXCEPT ![t] = "done"]
    /\ req' = [req EXCEPT ![t] = NoReq]
    /\ UNCHANGED <<c, mu, now, ticks, started, newClient, bootLog, wave>>
    /\ UNCHANGED harnessVars
    /\ UNCHANGED <<listVars, benchVars, installed>>

\* the wall clock advances
Tick ==
    /\ ticks < MaxTicks
    /\ ticks' = ticks + 1
    /\ \E d \in TickSteps :
         /\ now' = now + d
         /\ LET lockers == { t \in Threads : pc[t] = "lock" }
                joined == IF WithinMargin(c, now + d) /\ lockers # {}
                          THEN JoinWave(wave, pc, lockers) ELSE wave
            IN  wave' = [joined EXCEPT !.bad =
                           @ \/ (/\ WaveActive(wave, pc)
                                 /\ wave.completed >= 1
                                 /\ WithinMargin(c, now + d))]
    /\ hist' = [t \in Threads |->
                  IF pc[t] = "lock" THEN [hist[t] EXCEPT !.ticked = TRUE]
                  ELSE hist[t]]
    /\ UNCHANGED <<c, mu, pc, req, res, started, newClient, bootLog, bootStep>>
    /\ UNCHANGED harnessVars
    /\ UNCHANGED <<listVars, benchVars, installed>>

\* session.go UserID lines 255-257: a goroutine between two calls reads
\* c.userID through the accessor, which takes no lock; the history records
\* whether a refresh held the exclusive lock at that moment
UserID(t) ==
    /\ t \in Callers
    /\ newClient = "client"
    /\ pc[t] \in {"idle", "done"}
    /\ started < MaxCalls
    /\ started' = started + 1
    /\ res' = [res EXCEPT ![t] =
                 [err |-> NoErr, body |-> [kind |-> "int", value |-> c.userID]]]
    /\ hist' = [hist EXCEPT ![t] = [NoHist EXCEPT !.unguarded = mu.writers # {}]]
    /\ pc' = [pc EXCEPT ![t] = "done"]
    /\ UNCHANGED <<c, mu, now, ticks, req, newClient, bootLog, bootStep, wave>>
    /\ UNCHANGED harnessVars
    /\ UNCHANGED <<listVars, benchVars, installed>>

(* ------------------------- the specifications ------------------------ *)
\* NewClient's run, from the call to its return
BootNext ==
    \/ NewClientStart
    \/ InstallationRespond
    \/ DeviceServerRespond
    \/ SessionServerRespond
    \/ EnsureSessionActive(Boot)
    \/ RefreshRespond(Boot, SessionAnswers)
    \/ Snapshot(Boot)
    \/ Send(Boot)
    \/ Respond(Boot, AccountAnswers)
    \/ FindPrimaryAccountReturn
    \/ Tick

BootSpec == Init /\ [][BootNext]_vars

\* the clients NewClient returns: the handshake's tokens and keys, and an
\* expiry of the session timeout the server named, counted from time 0
BootedClients ==
    { [privateKey |-> ClientKey, serverPublicKey |-> ServerKey,
       installationToken |-> "inst", sessionToken |-> "s1",
       sessionExpiry |-> IF st = 0 THEN DefaultSessionTimeout ELSE st,
       userID |-> 7, primaryMonetaryAccountID |-> 5] :
      st \in {20, 40} }

InitBooted ==
    /\ c \in BootedClients
    /\ installed = c.sessionToken
    /\ mu = [writers |-> {}, readers |-> {}]
    /\ now = 0
    /\ ticks = 0
    /\ pc = [t \in Threads |-> IF t = Boot THEN "returned" ELSE "idle"]
    /\ req = [t \in Threads |-> NoReq]
    /\ res = [t \in Threads |-> NoResult]
    /\ started = 0
    /\ newClient = "client"
    /\ bootLog = <<"installation", "device-server", "session-server",
                   "monetary-account">>
    /\ bootStep = {"keygen", "installation", "device-server", "session-server",
                   "monetary-account"}
    /\ hist = [t \in Threads |-> NoHist]
    /\ wave = NoWave
    /\ InitHarnessIdle
    /\ InitListIdle
    /\ InitBenchIdle

\* what the server answers a refresh with, when goroutines share the client
GuardSessionBodies ==
    { [kind |-> "session",
       items |-> << [key |-> "Token", token |-> "s2", id |-> 0, session_timeout |-> 0],
                    [key |-> "UserPerson", token |-> "", id |-> 7,
                     session_timeout |-> st] >>] :
      st \in SessionTimeouts \ {-10} }

\* the answers of a server that signs what it sends, or fails with an
\* error envelope
GuardAnswers(okBodies) ==
    { r \in Responses(LiveStatuses, okBodies) :
        /\ r.sig \in {NoSig, signRequest(ServerKey, r.body)}
        /\ r.status # StatusOK => r.body # Garbage }

GuardRefreshAnswers == GuardAnswers(GuardSessionBodies)
GuardResourceAnswers == GuardAnswers(ResourceBodies)

\* goroutines sharing the client NewClient returned
Next ==
    \/ \E t \in Callers : Start(t)
    \/ \E t \in Callers : EnsureSessionActive(t)
    \/ \E t \in Callers : RefreshRespond(t, GuardRefreshAnswers)
    \/ \E t \in Callers : Snapshot(t)
    \/ \E t \in Callers : Send(t)
    \/ \E t \in Callers : Respond(t, GuardResourceAnswers)
    \/ Tick

Spec == InitBooted /\ [][Next]_vars

\* the items a refresh answer is made of when goroutines share the client:
\* a new token, an empty or unparsable one, the same user or another one,
\* with a session_timeout that is absent, negative or above the margin
RefreshItems ==
    { it \in SessionItems :
        \/ it.key = "Token" /\ it.token \in {"", "s2"}
        \/ it.key = "TokenBad"
        \/ it.key = "UserPerson" /\ it.id = 7 /\ it.session_timeout \in {-10, 0, 40}
        \/ it.key = "UserPerson" /\ it.id \in {0, 8} /\ it.session_timeout = 40 }

RefreshBodies ==
    { b \in SessionBodies :
        b.kind = "session" => \A i \in 1..Len(b.items) : b.items[i] \in RefreshItems }

RefreshAnswers == GuardAnswers(RefreshBodies)

\* goroutines sharing the client NewClient returned, against a server that
\* may answer a refresh with any of these bodies, and a resource call with
\* any status
SessionNext ==
    \/ \E t \in Callers : Start(t)
    \/ \E t \in Callers : EnsureSessionActive(t)
    \/ \E t \in Callers : RefreshRespond(t, RefreshAnswers)
    \/ \E t \in Callers : Snapshot(t)
    \/ \E t \in Callers : Send(t)
    \/ \E t \in Callers : Respond(t, GuardResourceAnswers)
    \/ \E t \in Callers : UserID(t)

SessionSpec == InitBooted /\ [][SessionNext]_vars

\* the refresh answers of a server that always answers: a failure, or a
\* session that is short or long
LiveSessionBodies ==
    { b \in GuardSessionBodies : b.items[2].session_timeout \in {20, 40} }

LiveRefreshAnswers ==
    { r \in GuardAnswers(LiveSessionBodies) : ~r.transport => r.sig = NoSig }

LiveResourceAnswers ==
    { r \in GuardAnswers(ResourceBodies) : ~r.transport => r.sig = NoSig }

LiveNext ==
    \/ \E t \in Callers : Start(t)
    \/ \E t \in Callers : EnsureSessionActive(t)
    \/ \E t \in Callers : RefreshRespond(t, LiveRefreshAnswers)
    \/ \E t \in Callers : Snapshot(t)
    \/ \E t \in Callers : Send(t)
    \/ \E t \in Callers : Respond(t, LiveResourceAnswers)

\* scheduling: every HTTP call returns (with an answer or a transport
\* error), a running goroutine takes its next step, and sync.RWMutex hands
\* the lock to a goroutine that keeps waiting for it
Fairness ==
    \A t \in Callers :
        /\ SF_vars(EnsureSessionActive(t))
        /\ SF_vars(Snapshot(t))
        /\ WF_vars(RefreshRespond(t, LiveRefreshAnswers))
        /\ WF_vars(Send(t))
        /\ WF_vars(Respond(t, LiveResourceAnswers))

\* goroutines sharing the client, under that scheduling
LiveSpec == InitBooted /\ [][LiveNext]_vars /\ Fairness

(* --------------------------- request harness -------------------------- *)
\* the test server of bunq_test.go lines 312-410: it answers the first k
\* calls of a request with 429 and every later one with status s
Scripts ==
    { [i \in 1..(ExpectedRetries + 2) |-> IF i <= k THEN StatusTooManyRequests ELSE s] :
        k \in 0..(ExpectedRetries + 2), s \in Statuses }

\* the Retry-After header of its 429 answers: none, or a number of seconds
RetryHints == { <<>>, <<0>>, <<3>> }

\* bunq_test.go lines 328-331: c := &Client{httpClient, baseURL}, no NewClient
InitRequest ==
    /\ c = ZeroClient
    /\ installed = ""
    /\ mu = [writers |-> {}, readers |-> {}]
    /\ now = 0
    /\ ticks = 0
    /\ pc = [t \in Threads |-> "idle"]
    /\ req = [t \in Threads |-> NoReq]
    /\ res = [t \in Threads |-> NoResult]
    /\ started = 0
    /\ newClient = "pending"
    /\ bootLog = <<>>
    /\ bootStep = {}
    /\ hist = [t \in Threads |-> NoHist]
    /\ wave = NoWave
    /\ script \in Scripts
    /\ hints \in RetryHints
    /\ tpc = "start"
    /\ calls = 0
    /\ slept = <<>>
    /\ tres = NoResult
    /\ InitListIdle
    /\ InitBenchIdle

\* the answers the test server gives its n-th call
ScriptedAnswers(n) ==
    { r \in Responses({script[n]}, ResourceBodies) : ~r.transport }

\* part_001 request lines 58-121, called as in bunq_test.go line 333 with
\* useSessionToken = false: the request is built and sent
HarnessSend ==
    /\ tpc = "start"
    /\ calls' = calls + 1
    /\ tpc' = "wait"
    /\ UNCHANGED <<script, hints, slept, tres>>
    /\ UNCHANGED clientVars
    /\ UNCHANGED <<listVars, benchVars, installed>>

\* part_001 request lines 121-147: the answer arrives and request returns
HarnessRespond ==
    /\ tpc = "wait"
    /\ \E resp \in ScriptedAnswers(calls) :
         tres' = RequestOutcome(BuildRequest("test", FALSE, c), resp)
    /\ tpc' = "done"
    /\ UNCHANGED <<script, hints, calls, slept>>
    /\ UNCHANGED clientVars
    /\ UNCHANGED <<listVars, benchVars, installed>>

RequestNext == HarnessSend \/ HarnessRespond

RequestSpec == InitRequest /\ [][RequestNext]_vars

(* --------------------------- list iteration --------------------------- *)
\* toParams that never sets older_id
toParams_NoOlder(o) ==
    IF o.nil THEN NoParams
    ELSE [count |-> IF o.Count > 0 THEN <<o.Count>> ELSE <<>>,
          older_id |-> <<>>,
          newer_id |-> IF o.NewerID > 0 THEN <<o.NewerID>> ELSE <<>>]

\* bunq.go toParams lines 34-52: the query parameters of a *ListOptions; a
\* nil receiver and an empty map both give no parameters
toParams(o) ==
    IF o.nil THEN NoParams
    ELSE [count |-> IF o.Count > 0 THEN <<o.Count>> ELSE <<>>,
          older_id |-> IF o.OlderID > 0 THEN <<o.OlderID>> ELSE <<>>,
          newer_id |-> IF o.NewerID > 0 THEN <<o.NewerID>> ELSE <<>>]

\* &ListOptions{Count: count, OlderID: olderID}
ListOptions(count, olderID) ==
    [nil |-> FALSE, Count |-> count, OlderID |-> olderID, NewerID |-> 0]

\* the options a caller may pass: nil, or a page size and an older cursor
CallerOptions ==
    {NoOpts} \cup { ListOptions(n, o) : n \in {0, 1}, o \in {0, 100} }

\* the older cursors a page's Pagination may name
Cursors == {0, 50, 100}

NoPagination == [present |-> FALSE, older |-> <<>>]

\* the Pagination of a page: none, one without older cursor, or one with it
Paginations ==
    {NoPagination}
    \cup {[present |-> TRUE, older |-> <<>>]}
    \cup { [present |-> TRUE, older |-> <<n>>] : n \in Cursors }

\* the Response arrays of a page, as entries {<key>: {"id": id}}
EntryLists ==
    { <<>>,
      << [key |-> "Payment", id |-> 1] >>,
      << [key |-> "Payment", id |-> 2], [key |-> "Payment", id |-> 3] >>,
      << [key |-> "Other", id |-> 4], [key |-> "PaymentBatch", id |-> 5] >>,
      << [key |-> "Payment", id |-> 6], [key |-> "bad", id |-> 0] >> }

PageBodies ==
    { [kind |-> "list", entries |-> e, pagination |-> pg] :
        e \in EntryLists, pg \in Paginations }
    \cup {Garbage}

\* what the server may answer a page request with: an unsigned page, a 404
\* with an error envelope, or nothing (the call was cut off)
ListAnswers ==
    { r \in Responses({StatusOK, 404}, PageBodies) :
        r.sig = NoSig /\ (r.status # StatusOK => r.body # Garbage) }

\* the key of the listed type, and the keys it is a prefix of
ListKey == "Payment"
PrefixedKeys == {"PaymentBatch"}

RECURSIVE unmarshalEntries(_, _)
\* part_001 unmarshalList, the loop of lines 271-297 from entry i on: the
\* items of the entries under the key (or a key it prefixes), the others
\* skipped; an entry that does not parse ends it with an error
unmarshalEntries(entries, i) ==
    IF i > Len(entries) THEN [items |-> <<>>, err |-> NoErr]
    ELSE IF entries[i].key = "bad"
    THEN [items |-> <<>>, err |-> Err("unmarshaling list item")]
    ELSE LET rest == unmarshalEntries(entries, i + 1)
         IN  IF rest.err # NoErr THEN rest
             ELSE IF entries[i].key \in {ListKey} \cup PrefixedKeys
             THEN [items |-> <<entries[i].id>> \o rest.items, err |-> NoErr]
             ELSE rest

\* part_001 unmarshalList, lines 261-303
unmarshalList(body) ==
    IF body.kind # "list"
    THEN [Items |-> <<>>, Pagination |-> NoPagination,
          err |-> Err("unmarshaling response envelope")]
    ELSE LET r == unmarshalEntries(body.entries, 1)
         IN  [Items |-> r.items, Pagination |-> body.pagination, err |-> r.err]

\* bunq.go olderID and parseIDFromURL, lines 78-110: the older_id of the
\* page's older_url, not ok when there is none or it is not positive
olderID(pg) ==
    IF ~pg.present \/ pg.older = <<>> THEN [id |-> 0, ok |-> FALSE]
    ELSE IF pg.older[1] <= 0 THEN [id |-> 0, ok |-> FALSE]
    ELSE [id |-> pg.older[1], ok |-> TRUE]

\* bunq.go listIter lines 126-129
PageCount(o) == IF ~o.nil /\ o.Count > 0 THEN o.Count ELSE defaultListCount

\* the iterator function of bunq.go is called, listIter lines 126-137:
\* count, the caller's options completed in place, params, prevOlderID
ListBegin ==
    /\ lpc = "start"
    /\ impl = "bunq.go"
    /\ LET o1 == IF opts.nil THEN ListOptions(0, 0) ELSE opts
           o2 == IF o1.Count = 0 THEN [o1 EXCEPT !.Count = PageCount(opts)]
                 ELSE o1
       IN  /\ opts' = IF opts.nil THEN opts ELSE o2
           /\ params' = toParams(o2)
    /\ prevOlderID' = 0
    /\ lpc' = "get"
    /\ UNCHANGED <<impl, sent, served, yielded, stopAt, first>>
    /\ UNCHANGED <<clientVars, harnessVars, benchVars>>

\* the iterator function of pagination.go is called, listIter line 26
PaginationBegin ==
    /\ lpc = "start"
    /\ impl = "pagination.go"
    /\ params' = toParams(opts)
    /\ lpc' = "get"
    /\ UNCHANGED <<impl, opts, prevOlderID, sent, served, yielded, stopAt, first>>
    /\ UNCHANGED <<clientVars, harnessVars, benchVars>>

\* bunq.go listIter line 139, pagination.go listIter line 28: c.get is
\* called with the current params
ListGet ==
    /\ lpc = "get"
    /\ Len(sent) < MaxPages
    /\ sent' = Append(sent, params)
    /\ lpc' = "wait"
    /\ UNCHANGED <<impl, opts, params, prevOlderID, served, yielded, stopAt, first>>
    /\ UNCHANGED <<clientVars, harnessVars, benchVars>>

\* Yields that ignores what yield returns
Yields_NeverStops(items, made, stop) == [items |-> items, stopped |-> FALSE]

\* Yields that leaves out the last item of every page
Yields_SkipLast(items, made, stop) ==
    [items |-> IF Len(items) = 0 THEN items ELSE SubSeq(items, 1, Len(items) - 1),
     stopped |-> FALSE]

\* the yield calls the items of a page lead to, given the calls made so far:
\* all of them, or those up to the call that returns false
Yields(items, made, stop) ==
    IF stop > made /\ stop <= made + Len(items)
    THEN [items |-> SubSeq(items, 1, stop - made), stopped |-> TRUE]
    ELSE [items |-> items, stopped |-> FALSE]

\* the answer to a page request as c.get returns it and unmarshalList reads it
Fetched(resp) ==
    LET got == RequestOutcome(BuildRequest("list", TRUE, c), resp)
    IN  [err |-> got.err, body |-> got.body, page |-> unmarshalList(got.body)]

\* YieldError that yields the error and asks for the same page again
YieldError_GoesOn(f) ==
    /\ served' = Append(served, IF f.err # NoErr THEN [kind |-> "failed"]
                                ELSE f.body)
    /\ yielded' = Append(yielded, IF f.err # NoErr THEN -1 ELSE -2)
    /\ lpc' = "get"
    /\ UNCHANGED <<params, prevOlderID>>

\* both versions, c.get or unmarshalList failed: the error is yielded and
\* the iterator returns (bunq.go lines 140-150, pagination.go lines 29-39)
YieldError(f) ==
    /\ served' = Append(served, IF f.err # NoErr THEN [kind |-> "failed"]
                                ELSE f.body)
    /\ yielded' = Append(yielded, IF f.err # NoErr THEN -1 ELSE -2)
    /\ lpc' = "returned"
    /\ UNCHANGED <<params, prevOlderID>>

\* bunq.go listIter lines 139-164: c.get returns, the page is unmarshalled,
\* an empty page ends the iteration, the items are yielded one by one, and
\* the next request is prepared unless the page names no older cursor or
\* the one of the page before
ListReceive ==
    /\ lpc = "wait"
    /\ impl = "bunq.go"
    /\ \E resp \in ListAnswers :
         LET f == Fetched(resp)
             y == Yields(f.page.Items, Len(yielded), stopAt)
             older == olderID(f.page.Pagination)
         IN  IF f.err # NoErr \/ f.page.err # NoErr
             THEN YieldError(f)
             ELSE /\ served' = Append(served, f.body)
                  /\ IF Len(f.page.Items) = 0
                     THEN /\ lpc' = "returned"
                          /\ UNCHANGED <<yielded, params, prevOlderID>>
                     ELSE /\ yielded' = yielded \o y.items
                          /\ IF y.stopped \/ ~older.ok \/ older.id = prevOlderID
                             THEN /\ lpc' = "returned"
                                  /\ UNCHANGED <<params, prevOlderID>>
                             ELSE /\ prevOlderID' = older.id
                                  /\ params' = toParams(
                                        ListOptions(PageCount(opts), older.id))
                                  /\ lpc' = "get"
    /\ UNCHANGED <<impl, opts, sent, stopAt, first>>
    /\ UNCHANGED <<clientVars, harnessVars, benchVars>>

\* pagination.go listIter lines 28-48: c.get returns, the page is
\* unmarshalled, the items are yielded one by one, and the next request is
\* prepared from the page's OlderID unless there is none
PaginationReceive ==
    /\ lpc = "wait"
    /\ impl = "pagination.go"
    /\ \E resp \in ListAnswers :
         LET f == Fetched(resp)
             y == Yields(f.page.Items, Len(yielded), stopAt)
             pg == f.page.Pagination
         IN  IF f.err # NoErr \/ f.page.err # NoErr
             THEN YieldError(f)
             ELSE /\ served' = Append(served, f.body)
                  /\ yielded' = yielded \o y.items
                  /\ IF y.stopped \/ ~pg.present \/ pg.older = <<>>
                     THEN /\ lpc' = "returned"
                          /\ UNCHANGED params
                     ELSE /\ params' = toParams(ListOptions(0, pg.older[1]))
                          /\ lpc' = "get"
                  /\ UNCHANGED prevOlderID
    /\ UNCHANGED <<impl, opts, sent, stopAt, first>>
    /\ UNCHANGED <<clientVars, harnessVars, benchVars>>

\* a caller ranges over the sequence listIter returned, on a client whose
\* session is more than the margin from expiry; it consumes everything or
\* stops at one of its first calls of yield
InitList ==
    /\ c \in { cl \in BootedClients : ~NeedsRefresh(cl, 0) }
    /\ installed = c.sessionToken
    /\ mu = [writers |-> {}, readers |-> {}]
    /\ now = 0
    /\ ticks = 0
    /\ pc = [t \in Threads |-> IF t = Boot THEN "returned" ELSE "idle"]
    /\ req = [t \in Threads |-> NoReq]
    /\ res = [t \in Threads |-> NoResult]
    /\ started = 0
    /\ newClient = "client"
    /\ bootLog = <<>>
    /\ bootStep = {}
    /\ hist = [t \in Threads |-> NoHist]
    /\ wave = NoWave
    /\ InitHarnessIdle
    /\ InitBenchIdle
    /\ impl \in {"bunq.go", "pagination.go"}
    /\ opts \in CallerOptions
    /\ params = NoParams
    /\ prevOlderID = 0
    /\ lpc = "start"
    /\ sent = <<>>
    /\ served = <<>>
    /\ yielded = <<>>
    /\ stopAt \in 0..MaxStop
    /\ first = <<>>

ListNext ==
    \/ ListBegin
    \/ PaginationBegin
    \/ ListGet
    \/ ListReceive
    \/ PaginationReceive

ListSpec == InitList /\ [][ListNext]_vars

\* the caller ranges a second time over the sequence listIter returned: the
\* function of bunq.go line 125 (pagination.go line 25) runs again, on the
\* opts it captured, with new locals
ListAgain ==
    /\ lpc = "returned"
    /\ first = <<>>
    /\ Len(sent) >= 1
    /\ first' = <<sent[1]>>
    /\ lpc' = "start"
    /\ params' = NoParams
    /\ prevOlderID' = 0
    /\ sent' = <<>>
    /\ served' = <<>>
    /\ yielded' = <<>>
    /\ UNCHANGED <<impl, opts, stopAt>>
    /\ UNCHANGED <<clientVars, harnessVars, benchVars>>

ListAgainNext == ListNext \/ ListAgain

ListAgainSpec == InitList /\ [][ListAgainNext]_vars

(* ------------------------ functions on their own --------------------- *)
\* the client doSessionServer runs on in NewClient: keys and installation
\* token set, no session yet
HandshakeClient ==
    [ZeroClient EXCEPT !.privateKey = ClientKey, !.serverPublicKey = ServerKey,
                       !.installationToken = "inst"]

\* the values time.Now() may have when parseSessionResponse reads it
ParseTimes == {0, 10, 2000}

\* the calls of parseSessionResponse: by the handshake or by a refresh, with
\* any body a session-server answer may have
ParseSessionCalls ==
    { [fn |-> "parseSessionResponse", c |-> cl, body |-> b, t |-> t] :
        cl \in {HandshakeClient} \cup BootedClients,
        b \in SessionBodies, t \in ParseTimes }

\* session.go parseSessionResponse, lines 152-207, is called and returns
CallParseSessionResponse ==
    /\ fin.fn = "parseSessionResponse"
    /\ fout = NoOutput
    /\ LET r == parseSessionResponse(fin.c, fin.body, fin.t)
       IN  fout' = [fn |-> "parseSessionResponse", c |-> r.c, err |-> r.err]
    /\ UNCHANGED fin
    /\ UNCHANGED <<clientVars, harnessVars, listVars>>

InitParse ==
    /\ InitClient
    /\ InitHarnessIdle
    /\ InitListIdle
    /\ fin \in ParseSessionCalls
    /\ fout = NoOutput

ParseNext == CallParseSessionResponse

ParseSpec == InitParse /\ [][ParseNext]_vars

\* key pairs as generateRSAKeyPair returns them, each public key named as
\* its private key
KeyPairs == {ClientKey, ServerKey, OtherKey}

\* bodies to sign: empty, and two different contents
SignedBodies == { NilBody, [kind |-> "payload"], [kind |-> "device"] }

\* what may happen to a signature on its way: nothing, another signature
\* value of the same form, or a string that is not base64
Alterations == {"none", "changed", "garbled"}

\* the signature string after the alteration
Altered(sig, how) ==
    CASE how = "none" -> sig
      [] how = "changed" -> [signer |-> sig.signer, digest |-> [kind |-> "tampered"]]
      [] how = "garbled" -> NoSig

\* a body signed under one key, and the key, body and signature it is then
\* verified with
SignVerifyCalls ==
    { [fn |-> "signRequest", key |-> k, body |-> b,
       pub |-> k2, received |-> b2, alter |-> a] :
        k \in KeyPairs, b \in SignedBodies,
        k2 \in KeyPairs, b2 \in SignedBodies, a \in Alterations }

\* part_005 signRequest, lines 99-106, is called and returns the signature
CallSignRequest ==
    /\ fin.fn = "signRequest"
    /\ fout = NoOutput
    /\ fout' = [fn |-> "signRequest", sig |-> signRequest(fin.key, fin.body)]
    /\ UNCHANGED fin
    /\ UNCHANGED <<clientVars, harnessVars, listVars>>

\* part_005 verifyResponse, lines 108-115, is called with the signature as
\* it arrived and returns nil (ok) or an error
CallVerifyResponse ==
    /\ fout.fn = "signRequest"
    /\ LET sig == Altered(fout.sig, fin.alter)
       IN  fout' = [fn |-> "verifyResponse", sig |-> sig,
                    ok |-> verifyResponse(fin.pub, fin.received, sig)]
    /\ UNCHANGED fin
    /\ UNCHANGED <<clientVars, harnessVars, listVars>>

InitSign ==
    /\ InitClient
    /\ InitHarnessIdle
    /\ InitListIdle
    /\ fin \in SignVerifyCalls
    /\ fout = NoOutput

SignNext == CallSignRequest \/ CallVerifyResponse

SignSpec == InitSign /\ [][SignNext]_vars

\* the DER bytes a PEM block may hold: an RSA key as PKCS#1 or as PKIX, a
\* PKIX key of another algorithm, or bytes that are no key
DERBytes ==
    { [form |-> f, alg |-> "rsa", key |-> k] : f \in {"pkcs1", "pkix"}, k \in KeyPairs }
    \cup { [form |-> "pkix", alg |-> "ec", key |-> k] : k \in KeyPairs }
    \cup { [form |-> "junk", alg |-> "none", key |-> NilKey] }

\* the texts parsePublicKeyPEM may be given: one without a PEM block, or a
\* block of some type, possibly with text before or after it
PEMTexts ==
    {BadPEM}
    \cup { [kind |-> "pem", type |-> ty, bytes |-> b, lead |-> l, rest |-> r] :
             ty \in {"RSA PUBLIC KEY", "PUBLIC KEY", "CERTIFICATE"},
             b \in DERBytes, l \in BOOLEAN, r \in BOOLEAN }

\* a key to encode and parse back, or a text to parse
PEMCalls ==
    { [fn |-> "publicKeyToPEM", key |-> k] : k \in KeyPairs }
    \cup { [fn |-> "parsePublicKeyPEM", pem |-> t] : t \in PEMTexts }

\* part_005 publicKeyToPEM, lines 90-97, is called and returns the text
CallPublicKeyToPEM ==
    /\ fin.fn = "publicKeyToPEM"
    /\ fout = NoOutput
    /\ fout' = [fn |-> "publicKeyToPEM", pem |-> publicKeyToPEM(fin.key)]
    /\ UNCHANGED fin
    /\ UNCHANGED <<clientVars, harnessVars, listVars>>

\* part_005 parsePublicKeyPEM, lines 117-136, is called with the text just
\* encoded or with the given text, and returns a key or an error (NilKey)
CallParsePublicKeyPEM ==
    /\ \/ fout.fn = "publicKeyToPEM"
       \/ fin.fn = "parsePublicKeyPEM" /\ fout = NoOutput
    /\ LET text == IF fin.fn = "publicKeyToPEM" THEN fout.pem ELSE fin.pem
       IN  fout' = [fn |-> "parsePublicKeyPEM", pem |-> text,
                    key |-> parsePublicKeyPEM(text)]
    /\ UNCHANGED fin
    /\ UNCHANGED <<clientVars, harnessVars, listVars>>

InitPEM ==
    /\ InitClient
    /\ InitHarnessIdle
    /\ InitListIdle
    /\ fin \in PEMCalls
    /\ fout = NoOutput

PEMNext == CallPublicKeyToPEM \/ CallParsePublicKeyPEM

PEMSpec == InitPEM /\ [][PEMNext]_vars

\* the X-Bunq-Client-Response-Id values a response may carry ("": no header)
ResponseIDs == {"", "r1", "r2"}

\* the bodies an error response may have: none, not JSON, JSON without an
\* Error array, and error envelopes of zero, one and two entries
APIErrorBodies ==
    { NilBody, Garbage, [kind |-> "payload"] }
    \cup { [kind |-> "error", messages |-> m] :
             m \in { <<>>, <<"m1">>, <<"m1", "m2">>, <<"m2", "m1">>, <<"m1", "m1">> } }

\* the calls of newAPIError that request can make (part_001:132-135)
NewAPIErrorCalls ==
    { [fn |-> "newAPIError", statusCode |-> s, responseID |-> r, body |-> b] :
        s \in Statuses \ {StatusOK}, r \in ResponseIDs, b \in APIErrorBodies }

\* part_005 newAPIError, lines 37-71, is called and returns
CallNewAPIError ==
    /\ fin.fn = "newAPIError"
    /\ fout = NoOutput
    /\ fout' = [fn |-> "newAPIError",
                err |-> newAPIError(fin.statusCode, fin.responseID, fin.body)]
    /\ UNCHANGED fin
    /\ UNCHANGED <<clientVars, harnessVars, listVars>>

InitError ==
    /\ InitClient
    /\ InitHarnessIdle
    /\ InitListIdle
    /\ fin \in NewAPIErrorCalls
    /\ fout = NoOutput

ErrorNext == CallNewAPIError

ErrorSpec == InitError /\ [][ErrorNext]_vars

(* ======================= properties: session guard ==================== *)
\* a group of overlapping ensureSessionActive calls on an expiring session
\* has ended: every member has left ensureSessionActive
WaveDone == wave.members # {} /\ ~WaveActive(wave, pc)

\* C1 (as stated): when two or more goroutines are inside ensureSessionActive
\* together on a session within the margin of its expiry, exactly one
\* session-server request is sent in total.
C1_ExactlyOneRefresh ==
    (WaveDone /\ Cardinality(wave.members) >= 2) => wave.sent = 1

\* C1 (amended): such a group sends at least one session-server request, and
\* exactly one when no refresh of the group failed and none left the session
\* within the margin (a short session_timeout, or the clock reaching the
\* margin again while members were still blocked).
C1_OneRefreshUnlessBad ==
    (WaveDone /\ Cardinality(wave.members) >= 2)
        => /\ wave.sent >= 1
           /\ ~wave.bad => wave.sent = 1

C1_Witness ==
    /\ WaveDone
    /\ Cardinality(wave.members) >= 2
    /\ ~wave.bad
    /\ wave.sent = 1

\* C2: at most one refresh is in flight in every reachable state, it is in
\* flight exactly while its goroutine holds the exclusive lock, and no
\* goroutine is reading the session token under the read lock meanwhile.
C2_OneRefreshInFlight ==
    /\ Cardinality({ t \in Threads : pc[t] = "refresh" }) <= 1
    /\ mu.writers = { t \in Threads : pc[t] = "refresh" }
    /\ mu.readers = { t \in Threads : pc[t] = "runlock" }
    /\ mu.writers # {} => mu.readers = {}

C2_Witness ==
    \E t, u \in Callers :
        /\ pc[t] = "refresh"
        /\ mu.writers = {t}
        /\ pc[u] = "rlock"

\* C3 (as stated): a goroutine that entered ensureSessionActive while another
\* goroutine's refresh was in flight sends no session-server request of its
\* own and returns the outcome of the refresh it blocked on.
C3_SingleFlight ==
    \A t \in Callers :
        (hist[t].waited /\ hist[t].ensured # "no")
            => /\ hist[t].sent = 0
               /\ hist[t].ensured = "err" <=> hist[t].seen = "fail"

\* C3 (amended): such a goroutine sends no request of its own and returns
\* success when the refresh it blocked on succeeded and left the session
\* more than the margin from expiry when it obtained the lock; when that
\* refresh failed, or left the session within the margin, it sends its own
\* session-server request.
C3_BlockedCallers ==
    \A t \in Callers :
        (hist[t].waited /\ hist[t].ensured # "no")
            => /\ (hist[t].seen = "ok" /\ ~hist[t].ticked)
                      => (hist[t].sent = 0 /\ hist[t].ensured = "ok")
               /\ hist[t].seen # "ok" => hist[t].sent = 1

C3_Witness ==
    \E t \in Callers :
        /\ hist[t].waited
        /\ hist[t].seen = "ok"
        /\ hist[t].sent = 0
        /\ hist[t].ensured = "ok"

\* C4 (as stated): ensureSessionActive sends a session-server request before
\* returning if and only if less than 30 seconds remain; with 30 seconds or
\* more it returns at once without a request.
C4_RefreshIffBelowMargin ==
    \A t \in Callers :
        hist[t].rem # "none" => (hist[t].sent = 1 <=> hist[t].rem = "below")

\* C4 (amended): ensureSessionActive sends one session-server request before
\* returning if and only if at most 30 seconds remain (exactly 30 included);
\* with more than 30 seconds it returns at once, successfully, without one.
C4_RefreshIffWithinMargin ==
    \A t \in Callers :
        hist[t].rem # "none"
            => /\ hist[t].sent = 1 <=> hist[t].rem \in {"below", "equal"}
               /\ hist[t].sent = 0 <=> hist[t].rem = "above"
               /\ hist[t].rem = "above" => hist[t].ensured = "ok"

C4_Witness ==
    \E t \in Callers :
        /\ hist[t].rem = "equal"
        /\ hist[t].sent = 1
        /\ hist[t].ensured = "ok"

(* ====================== properties: request executor ================== *)
\* how many of the test server's first answers are 429
Leading(sc) ==
    Cardinality({ i \in DOMAIN sc : \A j \in 1..i : sc[j] = StatusTooManyRequests })

RECURSIVE Pow2(_)
Pow2(n) == IF n = 0 THEN 1 ELSE 2 * Pow2(n - 1)

\* C5: when the server answers 429 to the first k calls of a request
\* (1 <= k <= 5) and 200 to the next, request returns the 200 body without
\* error after exactly k+1 HTTP calls.
C5_RetryThenSuccess ==
    (/\ tpc = "done"
     /\ Leading(script) \in 1..ExpectedRetries
     /\ script[Leading(script) + 1] = StatusOK)
        => /\ tres.err = NoErr
           /\ tres.body \in ResourceBodies
           /\ calls = Leading(script) + 1

\* C6: when the server answers 429 to every call, request makes exactly 6
\* HTTP calls and returns a TooManyRequestsError; there is never a 7th call.
C6_ExhaustsRetries ==
    /\ calls <= ExpectedRetries + 1
    /\ (tpc = "done" /\ Leading(script) = ExpectedRetries + 2)
          => /\ calls = ExpectedRetries + 1
             /\ tres.err.kind = "TooManyRequestsError"

\* C7: before the i-th retry (i = 1..5) of a rate-limited request the
\* executor has waited 2^(i-1) seconds, or the Retry-After delay when the
\* 429 answer carried one.
C7_Backoff ==
    tpc = "done"
        => \A i \in 1..ExpectedRetries :
              i <= Leading(script)
                 => /\ Len(slept) >= i
                    /\ slept[i] = IF hints = <<>> THEN Pow2(i - 1) ELSE hints[1]

\* C8: for a first answer with a non-success status other than 429, request
\* makes exactly one HTTP call, waits for nothing, and returns no body and
\* the error classified from that status.
C8_OtherErrorsFailAtOnce ==
    (/\ tpc = "done"
     /\ script[1] \notin 200..299
     /\ script[1] # StatusTooManyRequests)
        => /\ calls = 1
           /\ slept = <<>>
           /\ tres.body = NilBody
           /\ tres.err # NoErr
           /\ tres.err.status = script[1]
           /\ tres.err.kind \in {"BadRequestError", "UnauthorizedError",
                                 "ForbiddenError", "NotFoundError",
                                 "MethodNotAllowedError", "InternalServerError",
                                 "APIError"}

C8_Witness ==
    /\ tpc = "done"
    /\ script[1] = 404
    /\ calls = 1
    /\ tres.body = NilBody
    /\ tres.err.kind = "NotFoundError"

(* ========================= properties: NewClient ====================== *)
AllSteps ==
    {"keygen", "installation", "device-server", "session-server",
     "monetary-account"}

\* the steps that come before the request to an endpoint
StepsBefore(endpoint) ==
    CASE endpoint = "installation" -> {"keygen"}
      [] endpoint = "device-server" -> {"keygen", "installation"}
      [] endpoint = "session-server" -> {"keygen", "installation", "device-server"}
      [] OTHER -> {"keygen", "installation", "device-server", "session-server"}

\* C9: NewClient returns a client only if key generation and the four
\* exchanges all succeeded; when a step fails it returns (nil, error), and
\* no request of a later step is ever sent after a failed step.
C9_AllOrNothing ==
    /\ newClient = "client" => AllSteps \subseteq bootStep
    /\ (pc[Boot] = "returned" /\ ~(AllSteps \subseteq bootStep))
          => newClient = "error"
    /\ newClient = "error" => (pc[Boot] = "returned" /\ req[Boot] = NoReq)
    /\ \A i \in 1..Len(bootLog) : StepsBefore(bootLog[i]) \subseteq bootStep

C9_Witness ==
    /\ newClient = "error"
    /\ bootStep = {"keygen", "installation", "device-server"}
    /\ bootLog = <<"installation", "device-server", "session-server">>

IsPrefix(s1, s2) ==
    Len(s1) <= Len(s2) /\ \A i \in 1..Len(s1) : s1[i] = s2[i]

FullOrder ==
    <<"installation", "device-server", "session-server", "monetary-account">>

RefreshOrder ==
    <<"installation", "device-server", "session-server", "session-server",
      "monetary-account">>

\* C10 (as stated): during a NewClient run the requests go out in the order
\* installation, device-server, session-server, monetary-account, each at
\* most once, and each exactly once when NewClient succeeds.
C10_LinearOnce ==
    /\ IsPrefix(bootLog, FullOrder)
    /\ newClient = "client" => bootLog = FullOrder

\* C10 (amended): the requests go out in that order, each at most once,
\* except that POST session-server is sent a second time, between the first
\* and the monetary-account GET, exactly when the session just opened has at
\* most 30 seconds left as the GET's ensureSessionActive checks it; it is
\* never sent a third time.
C10_LinearWithRefresh ==
    /\ IsPrefix(bootLog, FullOrder) \/ IsPrefix(bootLog, RefreshOrder)
    /\ newClient = "client" => bootLog \in {FullOrder, RefreshOrder}
    /\ pc[Boot] = "refresh" => hist[Boot].rem \in {"below", "equal"}
    /\ (pc[Boot] = "rlock" /\ Len(bootLog) = 3) => hist[Boot].rem = "above"

C10_Witness ==
    /\ newClient = "client"
    /\ bootLog = RefreshOrder

(* ==================== properties: handshake responses ================= *)
\* an answer that arrived with status 200 (history of NewClient's goroutine)
Arrived(a) == a # NoAnswer /\ ~a.transport /\ a.status = StatusOK

\* an installation answer without a token or without a server public key
LacksInstallationData(a) ==
    \/ a.body.kind # "installation"
    \/ a.body.token = ""
    \/ a.body.key = AbsentItem

\* a session-server answer without a session token or without a user item
\* carrying a positive id
LacksSessionData(a) ==
    \/ a.body.kind # "session"
    \/ ~\E i \in 1..Len(a.body.items) :
           a.body.items[i].key = "Token" /\ a.body.items[i].token # ""
    \/ ~\E i \in 1..Len(a.body.items) :
           a.body.items[i].key \notin {"Id", "Token", "TokenBad"}
              /\ a.body.items[i].id > 0

\* NewClient has failed, or the failed call is about to make it fail
Failing ==
    \/ newClient = "error"
    \/ pc[Boot] = "done" /\ res[Boot].err # NoErr

\* the last answer NewClient's goroutine received is the one to the
\* session-server request of the handshake, not to a repeated one
HandshakeSession(h) ==
    h.asked.endpoint = "session-server" /\ (h.sent = 0 \/ h.ensured = "no")

C12_TokensNeverEmpty ==
    newClient = "client" => (c.installationToken # "" /\ c.sessionToken # "")

\* a session was opened in this step: the handshake's session-server step
\* went on to the account lookup, or a refresh returned nil
SessionOpened ==
    \/ pc[Boot] = "session-server" /\ pc'[Boot] = "lock"
    \/ \E t \in Threads : pc[t] = "refresh" /\ pc'[t] = "rlock"

\* C13: right after every successful session opening (handshake or refresh)
\* sessionExpiry is strictly later than the current time.
C13_ExpiryInFuture ==
    [][SessionOpened => c'.sessionExpiry > now']_vars

\* goroutine t's refresh returned an error in this step
RefreshFailed(t) == pc[t] = "refresh" /\ pc'[t] = "done"

\* goroutine t's refresh returned in this step
RefreshReturned(t) == pc[t] = "refresh" /\ pc'[t] # "refresh"

\* C14: when the refresh of ensureSessionActive returns an error, sessionToken,
\* sessionExpiry and userID have the values they had before the refresh.
C14_FailedRefreshKeepsSession ==
    [][\A t \in Threads :
          RefreshFailed(t) => /\ c'.sessionToken = c.sessionToken
                              /\ c'.sessionExpiry = c.sessionExpiry
                              /\ c'.userID = c.userID]_vars

\* the fields a refresh is said to leave alone
Kept(cl) ==
    <<cl.installationToken, cl.privateKey, cl.serverPublicKey, cl.userID,
      cl.primaryMonetaryAccountID>>

\* C15: a refresh changes only sessionToken and sessionExpiry; the
\* installation token, the keys, userID and the primary account id are the
\* same after any refresh as before it.
C15_RefreshFrame ==
    [][\A t \in Threads : RefreshReturned(t) => Kept(c') = Kept(c)]_vars

\* the fields set by the handshake for the client's lifetime
Fixed(cl) ==
    <<cl.privateKey, cl.installationToken, cl.serverPublicKey,
      cl.primaryMonetaryAccountID>>

\* C16: after NewClient returned, only the step in which a refresh returns
\* changes a session field, so a call that performs no refresh leaves them
\* all unchanged however it ends; and the key pair, the installation token,
\* the server public key and the primary account id never change.
C16_FrameOutsideRefresh ==
    [][newClient = "client"
          => /\ Fixed(c') = Fixed(c)
             /\ c' # c => \E t \in Threads : RefreshReturned(t)]_vars

\* a call on a session 40 seconds from expiry, hence without a refresh, was
\* cut off in transit and the client is as NewClient returned it
C16_Witness ==
    \E t \in Callers :
        /\ pc[t] = "done"
        /\ res[t].err.kind = "executing request"
        /\ c \in BootedClients
        /\ c.sessionExpiry - now > RefreshMargin

\* C17: every read and write of sessionToken, sessionExpiry and userID after
\* NewClient returned holds the lock: the refresh writes while it holds the
\* exclusive lock, request reads the token while it holds the shared lock,
\* and no accessor reads userID while a refresh holds the exclusive lock.
C17_LockedAccess ==
    /\ \A t \in Threads : pc[t] = "refresh" => t \in mu.writers
    /\ \A t \in Threads : pc[t] = "runlock" => t \in mu.readers
    /\ \A t \in Threads : ~hist[t].unguarded

(* ================= properties: request executor, in use =============== *)
\* the last answer NewClient's goroutine received carried a signature that
\* does not verify against its body under the server key known at the time
Mismatch(h) ==
    /\ Arrived(h.answer)
    /\ h.answer.sig # NoSig
    /\ h.asked.serverPubKey # NilKey
    /\ ~verifyResponse(h.asked.serverPubKey, h.answer.body, h.answer.sig)

SignatureError == "server signature verification failed"

\* C18: when a 200 answer carries a server signature and the server public
\* key is known, request returns the body only if the signature verifies
\* against the body; on a mismatch it returns an error and no body, in every
\* step of NewClient (device-server, session-server, refresh, account GET),
\* so that the step fails and NewClient returns an error.
C18_ResponseIntegrity ==
    LET h == hist[Boot]
    IN  /\ Mismatch(h)
            => \/ newClient = "error"
               \/ /\ pc[Boot] = "done"
                  /\ res[Boot].err.kind = SignatureError
                  /\ res[Boot].body = NilBody
        /\ (pc[Boot] = "done" /\ res[Boot].body # NilBody)
            => /\ ~Mismatch(h)
               /\ res[Boot].body = h.answer.body

C18_Witness ==
    LET h == hist[Boot]
    IN  /\ Mismatch(h)
        /\ h.asked.endpoint = "monetary-account"
        /\ h.answer.sig.signer = OtherKey
        /\ pc[Boot] = "done"
        /\ res[Boot].err.kind = SignatureError
        /\ res[Boot].body = NilBody

\* C19: request takes the success path for every 2xx answer and returns an
\* error exactly when the status is outside 200-299.
C19_StatusClass ==
    tpc = "done"
        => IF script[calls] \in 200..299
           THEN tres.err = NoErr /\ tres.body \in ResourceBodies
           ELSE tres.err # NoErr /\ tres.body = NilBody

\* the endpoints of the handshake that are called with the installation token
InstallationScoped == {"device-server", "session-server"}

\* the endpoints called through get/post/put/delete
SessionScoped == {"monetary-account", "resource"}

\* C20: a request in flight to installation carries no token; one to
\* device-server or session-server (handshake or refresh) carries the
\* installation token; one to a resource (the account lookup included) is a
\* session-token request and carries the session token read at its snapshot;
\* and every request with a token carries the signature of its body under
\* the client's private key.
C20_TokenScoping ==
    \A t \in Threads :
        LET rq == req[t]
        IN  rq # NoReq
              => /\ rq.endpoint = "installation"
                     => (rq.token = "" /\ rq.signature = NoSig)
                 /\ rq.endpoint \in InstallationScoped
                     => (~rq.session /\ rq.token = c.installationToken
                           /\ rq.token # "")
                 /\ rq.endpoint \in SessionScoped
                     => /\ rq.session
                        /\ pc[t] = "runlock" => rq.token = c.sessionToken
                 /\ rq.token # ""
                     => /\ c.privateKey # NilKey
                        /\ rq.signature =
                              signRequest(c.privateKey, [kind |-> rq.endpoint])

\* the account lookup is in flight after a refresh replaced the token of the
\* handshake, and carries the new one
C20_Witness ==
    /\ pc[Boot] = "wait"
    /\ bootLog = RefreshOrder
    /\ req[Boot].endpoint = "monetary-account"
    /\ req[Boot].token = "s2"
    /\ req[Boot].token = c.sessionToken
    /\ req[Boot].signature.signer = ClientKey

(* ======================== properties: list iteration ================== *)
\* the older cursor a served page carries: <<n>>, or <<>> when it has no
\* Pagination or the Pagination names none
PageCursor(b) ==
    IF b.kind = "list" /\ b.pagination.present THEN b.pagination.older ELSE <<>>

\* the served answer is a page that unmarshals
IsPage(b) == b.kind = "list" /\ unmarshalList(b).err = NoErr

\* the items of a served page
PageItems(b) == unmarshalList(b).Items

\* the consumer's yield has returned false
Stopped == stopAt \in 1..Len(yielded)

\* the first i answers are pages and the consumer takes everything
PagesUpTo(i) ==
    /\ ~Stopped
    /\ \A j \in 1..i : IsPage(served[j])

\* after page i the iterator goes on to request i+1 with the given cursor
GoesOn(i, cur) ==
    /\ Len(sent) > i \/ lpc = "get"
    /\ Len(sent) > i => sent[i + 1].older_id = cur

\* after page i the iterator has returned, i requests made
Ends(i) == lpc = "returned" /\ Len(sent) = i

\* C21 as stated: whatever pages the server gives, a page carrying an older
\* cursor ci is followed by a request with older_id = ci, and the first page
\* without one ends the iteration, so cursors c1..ck give exactly k+1
\* requests.
C21_RequestPerCursor ==
    \A i \in 1..Len(served) :
        PagesUpTo(i) =>
            IF PageCursor(served[i]) # <<>>
            THEN GoesOn(i, PageCursor(served[i]))
            ELSE Ends(i)

\* page i has an item and a positive older cursor that differs from the
\* cursor of the page before it
Advances(i) ==
    /\ Len(PageItems(served[i])) > 0
    /\ PageCursor(served[i]) # <<>>
    /\ PageCursor(served[i])[1] > 0
    /\ i > 1 => PageCursor(served[i]) # PageCursor(served[i - 1])

\* C21 amended: while every page has an item and a positive older cursor
\* different from the page before's, page i is followed by a request with
\* older_id = ci; the first page without an older cursor after such pages
\* ends the iteration, so k such pages and a last one give exactly k+1
\* requests (cursors 100, 50, none give 3; no Pagination gives 1).
C21_RequestPerAdvancingCursor ==
    \A i \in 1..Len(served) :
        (PagesUpTo(i) /\ \A j \in 1..(i - 1) : Advances(j)) =>
            /\ Advances(i) => GoesOn(i, PageCursor(served[i]))
            /\ PageCursor(served[i]) = <<>> => Ends(i)

\* cursors 100, 50, none: three requests, then the iterator has returned
C21_Witness ==
    /\ Len(served) = 3
    /\ PagesUpTo(3)
    /\ Advances(1) /\ PageCursor(served[1]) = <<100>>
    /\ Advances(2) /\ PageCursor(served[2]) = <<50>>
    /\ PageCursor(served[3]) = <<>>
    /\ sent[2].older_id = <<100>> /\ sent[3].older_id = <<50>>
    /\ Ends(3)

\* C22: for every page request, the first included, a page whose older
\* cursor equals the older_id that request carried ends the iteration: no
\* further request is issued.
C22_EqualCursorStops ==
    \A i \in 1..Len(served) :
        (/\ IsPage(served[i])
         /\ PageCursor(served[i]) # <<>>
         /\ PageCursor(served[i]) = sent[i].older_id) => Ends(i)

\* C23: within one iteration the older_id cursors of successive page
\* requests are strictly decreasing (which bounds the number of requests
\* whatever cursors the server returns).
C23_CursorsDecrease ==
    \A i \in 1..Len(sent) : \A j \in (i + 1)..Len(sent) :
        (sent[i].older_id # <<>> /\ sent[j].older_id # <<>>)
            => sent[j].older_id[1] < sent[i].older_id[1]

\* the entry is one of the listed type
Listed(e) == e.key \in {ListKey} \cup PrefixedKeys

RECURSIVE ItemsFrom(_, _)
\* what the answers from the i-th on should lead the consumer to see: for a
\* page its listed entries in response order, for an answer that is no
\* readable page the error
ItemsFrom(pages, i) ==
    IF i > Len(pages) THEN <<>>
    ELSE IF pages[i].kind = "failed" THEN <<-1>>
    ELSE IF ~IsPage(pages[i]) THEN <<-2>>
    ELSE LET es == SelectSeq(pages[i].entries, Listed)
         IN  [k \in 1..Len(es) |-> es[k].id] \o ItemsFrom(pages, i + 1)

C25_StopEndsIteration ==
    [][/\ Stopped' => /\ lpc' = "returned"
                      /\ Len(yielded') = stopAt
                      /\ Len(sent') = Len(served')
       /\ Stopped => (sent' = sent /\ yielded' = yielded)]_vars

\* the consumer stopped at the first of two items of a page that names an
\* older cursor
C25_Witness ==
    /\ stopAt = 1
    /\ yielded = <<2>>
    /\ Len(served) = 1
    /\ PageCursor(served[1]) = <<100>>
    /\ lpc = "returned"

\* C26: every page request, the first and the later ones, carries count:
\* the caller's ListOptions.Count when positive, 200 otherwise (src/bunq.go
\* writes that default into the caller's options, so they show it too).
C26_CountOnEveryRequest ==
    \A i \in 1..Len(sent) : sent[i].count = <<PageCount(opts)>>

(* ======================= properties: error classifier ================= *)
\* the error type the claim assigns to each status it names
ClassOf ==
    [s \in {400, 401, 403, 404, 405, 429, 500} |->
        CASE s = 400 -> "BadRequestError"
          [] s = 401 -> "UnauthorizedError"
          [] s = 403 -> "ForbiddenError"
          [] s = 404 -> "NotFoundError"
          [] s = 405 -> "MethodNotAllowedError"
          [] s = 429 -> "TooManyRequestsError"
          [] s = 500 -> "InternalServerError"]

\* the error_description entries of the body's Error array, in order; none
\* when the body is no error envelope
EnvelopeEntries(body) == IF body.kind = "error" THEN body.messages ELSE <<>>

\* newAPIError has returned
Classified == fout.fn = "newAPIError"

\* the returned error has the type of its status, that status and the
\* response id it was given
CarriesStatusAndID ==
    /\ fout.err.kind = IF fin.statusCode \in DOMAIN ClassOf
                       THEN ClassOf[fin.statusCode] ELSE "APIError"
    /\ fout.err.status = fin.statusCode
    /\ fout.err.responseID = fin.responseID

\* C27 as stated: the error newAPIError returns has the type of its status
\* (generic for a status outside the seven), the status, the response id,
\* and always one message per entry of the error envelope, in order.
C27_MessagePerEntry ==
    Classified =>
        /\ CarriesStatusAndID
        /\ fout.err.messages = EnvelopeEntries(fin.body)

\* C27 amended: type, status and response id as stated; the messages are
\* the envelope's entries in order when it has at least one, and the single
\* message "unknown error" when the body has no entry or is no envelope.
C27_MessagePerEntryOrUnknown ==
    Classified =>
        /\ CarriesStatusAndID
        /\ fout.err.messages =
              IF Len(EnvelopeEntries(fin.body)) > 0
              THEN EnvelopeEntries(fin.body) ELSE <<"unknown error">>

\* a 400 with a response id and an envelope of two different entries
C27_Witness ==
    /\ Classified
    /\ fin.statusCode = 400
    /\ fin.responseID = "r2"
    /\ fin.body = [kind |-> "error", messages |-> <<"m2", "m1">>]
    /\ fout.err.kind = "BadRequestError"
    /\ fout.err.messages = <<"m2", "m1">>

(* ======================== properties: session timeout ================= *)
\* the item is a user object the client reads: any key but Id and Token,
\* with a positive id
UserObject(it) == it.key \notin {"Id", "Token", "TokenBad"} /\ it.id > 0

\* the session_timeout the response gives: that of its last user object in
\* response order, 0 when it has none
ServerTimeout(body) ==
    LET us == SelectSeq(body.items, UserObject)
    IN  IF Len(us) = 0 THEN 0 ELSE us[Len(us)].session_timeout

\* parseSessionResponse has returned nil: the session is open
ParsedOpen == fout.fn = "parseSessionResponse" /\ fout.err = NoErr

\* C28: after a successful session opening sessionExpiry is the time of
\* parsing plus the session_timeout of the response's user object, and plus
\* 1800 seconds when that is absent or zero.
C28_ExpiryIsNowPlusTimeout ==
    ParsedOpen =>
        fout.c.sessionExpiry =
            fin.t + (IF ServerTimeout(fin.body) = 0 THEN 1800
                     ELSE ServerTimeout(fin.body))

\* a handshake response without session_timeout parsed at time 10, and the
\* expiry 1800 seconds later
C28_Witness ==
    /\ ParsedOpen
    /\ fin.c = HandshakeClient
    /\ fin.t = 10
    /\ ServerTimeout(fin.body) = 0
    /\ fout.c.sessionExpiry = 1810

(* ======================== properties: primary account ================= *)
\* NewClient has returned, and the last answer its goroutine received was a
\* readable account list
AccountsAnswered ==
    LET h == hist[Boot]
    IN  /\ newClient # "pending"
        /\ h.asked.endpoint = "monetary-account"
        /\ AnswerOK(h.asked, h.answer)
        /\ h.answer.body.kind = "accounts"

\* the accounts of that answer, in response order
Listing == hist[Boot].answer.body.items

\* the places of the listing holding an ACTIVE account with a nonzero id
ActiveNonzero ==
    { i \in 1..Len(Listing) : Listing[i].status = "ACTIVE" /\ Listing[i].id # 0 }

\* the places of the listing holding an ACTIVE account with a positive id
ActivePositive ==
    { i \in 1..Len(Listing) : Listing[i].status = "ACTIVE" /\ Listing[i].id > 0 }

\* the least place of a non-empty set of places
First(places) == CHOOSE i \in places : \A j \in places : i <= j

\* NewClient returned a client whose primary account is that of the first
\* of the places, or failed when there is none
Resolves(places) ==
    IF places = {} THEN newClient = "error"
    ELSE /\ newClient = "client"
         /\ c.primaryMonetaryAccountID = Listing[First(places)].id

\* C29 as stated: the primary account is the first one of the response that
\* is ACTIVE with a nonzero id; without such an account NewClient fails.
C29_FirstActiveNonzero == AccountsAnswered => Resolves(ActiveNonzero)

\* C29 amended: the primary account is the first one of the response that
\* is ACTIVE with a positive id; without such an account NewClient fails
\* and returns no client.
C29_FirstActivePositive == AccountsAnswered => Resolves(ActivePositive)

\* a listing of two ACTIVE accounts with positive ids: the first is taken
C29_Witness ==
    /\ AccountsAnswered
    /\ Len(Listing) = 2
    /\ ActivePositive = {1, 2}
    /\ Listing[1].id = 6 /\ Listing[2].id = 5
    /\ newClient = "client"
    /\ c.primaryMonetaryAccountID = 6

(* ========================= properties: signatures ===================== *)
\* verifyResponse has returned
Verified == fout.fn = "verifyResponse"

\* the signature is verified as it was made: with the public key of the
\* pair that signed, on the body that was signed, unaltered
Untampered ==
    /\ fin.pub = fin.key
    /\ fin.received = fin.body
    /\ fin.alter = "none"

ParsedPEM == fout.fn = "parsePublicKeyPEM"

\* the text holds a PEM block whose bytes are an RSA public key
HoldsRSAKey(text) ==
    /\ text.kind = "pem"
    /\ text.bytes.form \in {"pkcs1", "pkix"}
    /\ text.bytes.alg = "rsa"

Snapshots(t) == pc[t] # "runlock" /\ pc'[t] = "runlock"

\* goroutine t hands its resource request to the network in this step
Sends(t) == pc[t] # "wait" /\ pc'[t] = "wait"

\* the refresh goroutine t triggered ends with an error in this step
RefreshErrs(t) == pc[t] = "refresh" /\ hist'[t].ensured = "err"

\* C32: in every session-scoped call ensureSessionActive has returned nil
\* (its lock released) when the credentials are snapshotted, and the request
\* sent is the one built from the snapshot just taken; when the refresh the
\* call triggered fails, the call returns with an error and without a
\* request of its own pending.
C32_CallOrder ==
    [][\A t \in Callers :
          /\ Snapshots(t) => /\ pc[t] = "rlock"
                             /\ hist[t].ensured = "ok"
                             /\ t \notin mu.writers
          /\ Sends(t) => /\ pc[t] = "runlock"
                         /\ req[t].endpoint = "resource"
                         /\ req'[t] = req[t]
          /\ RefreshErrs(t) => /\ pc'[t] = "done"
                               /\ res'[t].err # NoErr
                               /\ req'[t] = NoReq]_vars

\* a call whose refresh failed has returned the error
C32_Witness ==
    \E t \in Callers :
        /\ pc[t] = "done"
        /\ hist[t].ensured = "err"
        /\ res[t].err # NoErr
        /\ req[t] = NoReq

(* ======================== properties: no deadlock ===================== *)
\* goroutine t waits for the exclusive lock of ensureSessionActive or for
\* the read lock of the snapshot
Blocked(t) == pc[t] \in {"lock", "rlock"}

\* C33: the session-server request sent while ensureSessionActive holds the
\* exclusive lock is installation-scoped (it does not go through
\* ensureSessionActive), and, every HTTP call returning, a caller waiting in
\* ensureSessionActive or for the snapshot eventually gets past it.
C33_RefreshDeadlockFree ==
    /\ [](\A t \in Callers :
            pc[t] = "refresh" => /\ t \in mu.writers
                                 /\ req[t].endpoint = "session-server"
                                 /\ ~req[t].session)
    /\ \A t \in Callers : Blocked(t) ~> ~Blocked(t)

\* a goroutine waits for the lock while another one's refresh is in flight
C33_Witness ==
    \E t \in Callers : \E u \in Callers :
        /\ pc[t] = "lock"
        /\ pc[u] = "refresh"
        /\ u \in mu.writers

(* ========================= properties: stale token ==================== *)
\* C34: the session token a call reads at its snapshot, and sends, is the
\* one installed by the latest session opening that succeeded: never an
\* earlier one, and never one that a refresh wrote and then rejected.
C34_NoStaleToken ==
    [][\A t \in Callers :
          /\ Snapshots(t) => req'[t].token = installed
          /\ Sends(t) => req'[t].token = req[t].token]_vars

(* ===================== properties: refresh validation ================= *)
\* the body holds a Token entry with a non-empty token
CarriesToken(body) ==
    /\ body.kind = "session"
    /\ \E i \in 1..Len(body.items) :
          body.items[i].key = "Token" /\ body.items[i].token # ""

\* the body is a session-server answer without any Token entry
LacksTokenEntry(body) ==
    /\ body.kind = "session"
    /\ \A i \in 1..Len(body.items) : body.items[i].key \notin {"Token", "TokenBad"}

\* C35: the refresh of NewClient's account lookup returns nil, or moves
\* sessionExpiry forward, only when the session-server answer itself holds a
\* non-empty session token; a 200 answer without Token entry makes it fail
\* with sessionExpiry unchanged.
C35_RefreshNeedsToken ==
    [][pc[Boot] = "refresh" =>
          LET h == hist'[Boot]
          IN  /\ (pc'[Boot] = "rlock" \/ c'.sessionExpiry > c.sessionExpiry)
                    => CarriesToken(h.answer.body)
              /\ (AnswerOK(h.asked, h.answer) /\ LacksTokenEntry(h.answer.body))
                    => /\ pc'[Boot] = "done"
                       /\ res'[Boot].err # NoErr
                       /\ c'.sessionExpiry = c.sessionExpiry]_vars

(* ===================== properties: lock release ======================= *)
\* goroutine t leaves ensureSessionActive in this step
LeavesEnsure(t) ==
    \/ pc[t] = "lock" /\ pc'[t] = "rlock"
    \/ pc[t] = "refresh" /\ pc'[t] # "refresh"

\* goroutine t passes the expiry check of ensureSessionActive in this step
ChecksExpiry(t) == pc[t] = "lock" /\ pc'[t] # "lock"

\* C36: whichever way a goroutine leaves ensureSessionActive (no refresh
\* needed, refresh succeeded, refresh failed or its request broke off), the
\* exclusive lock is free afterwards; a failed refresh leaves the session
\* expiring, and every call of ensureSessionActive on an expiring session
\* sends a new session-server request, whatever failed before.
C36_UnlockOnEveryReturn ==
    [][\A t \in Callers :
          /\ LeavesEnsure(t) => mu'.writers = {} /\ CanLock(mu')
          /\ RefreshErrs(t) => NeedsRefresh(c', now') /\ pc'[t] = "done"
          /\ (ChecksExpiry(t) /\ NeedsRefresh(c, now))
                => /\ pc'[t] = "refresh"
                   /\ req'[t].endpoint = "session-server"
                   /\ hist'[t].sent = hist[t].sent + 1]_vars

\* a goroutine that waited behind a failed refresh is refreshing itself
C36_Witness ==
    \E t \in Callers :
        /\ pc[t] = "refresh"
        /\ hist[t].seen = "fail"
        /\ mu.writers = {t}

(* ===================== properties: failed page ======================== *)
\* the served answer is no readable page: c.get failed or unmarshalList did
FailedPage(b) == b.kind = "failed" \/ ~IsPage(b)

\* C37: when a page request fails or a page cannot be decoded, that page is
\* the last one requested and the iterator has returned; the consumer has
\* been given the items of all earlier pages, then one element carrying the
\* error and no item of the failed page, and nothing else.
C37_ErrorYieldedOnce ==
    \A i \in 1..Len(served) :
        FailedPage(served[i]) =>
            /\ i = Len(served)
            /\ Ends(i)
            /\ Len(yielded) >= 1
            /\ yielded[Len(yielded)] < 0
            /\ \A k \in 1..(Len(yielded) - 1) : yielded[k] > 0
            /\ SubSeq(yielded, 1, Len(yielded) - 1)
                  = ItemsFrom(SubSeq(served, 1, i - 1), 1)

\* a page of two items was taken, then a page whose second entry does not
\* parse: the consumer has the two items and the error, not item 6
C37_Witness ==
    /\ Len(served) = 2
    /\ IsPage(served[1])
    /\ served[2].kind = "list" /\ ~IsPage(served[2])
    /\ served[2].entries[1] = [key |-> "Payment", id |-> 6]
    /\ yielded = <<2, 3, -2>>
    /\ Ends(2)

\* a page was taken, then the request for the next one failed
C37_WitnessGet ==
    /\ Len(served) = 2
    /\ served[2].kind = "failed"
    /\ yielded = <<1, -1>>
    /\ Ends(2)

(* ===================== properties: caller's options =================== *)
\* the first page request of an iteration is issued in this step
FirstRequest == Len(sent) = 0 /\ Len(sent') = 1

\* C38: no step of an iteration changes the ListOptions the caller passed
\* (Count, OlderID and NewerID stay as they were), and the first request of
\* a second iteration over the returned sequence equals the first request
\* of the first iteration.
C38_OptionsUntouched ==
    [][/\ opts' = opts
       /\ (FirstRequest /\ first # <<>>) => sent'[1] = first[1]]_vars

\* the second half of C38 alone: a second iteration starts with the request
\* the first one started with
C38_SameFirstRequest ==
    [][(FirstRequest /\ first # <<>>) => sent'[1] = first[1]]_vars

\* a second iteration has issued its first request
C38_Witness ==
    /\ first # <<>>
    /\ Len(sent) >= 1
    /\ sent[1] = first[1]

====
